---- MODULE Spec2Model ----
(***************************************************************************)
(* A model of the project-tree scanner of scanner.py: the class            *)
(* PythonProjectScanner (scan_python_file, should_skip_directory,          *)
(* build_directory_structure and the analyze_* helpers) run against a      *)
(* small file system whose directory permissions may change while a scan   *)
(* is in progress.                                                         *)
(*                                                                         *)
(* Text is a string; Ord gives the code points of each text the model     *)
(* uses, and lower(), isupper(), startswith(), Path.suffix and the order   *)
(* of strings are computed on the code points.                             *)
(***************************************************************************)
EXTENDS Integers, Sequences, FiniteSets, TLC

VARIABLES
    fs,       \* the file system: node id -> [kind, name, parent, mode | content]
    pc,       \* "idle" | "scanning" | "done": where build_directory_structure is
    stack,    \* the activation records of process_directory, innermost last
    tree,     \* the value build_directory_structure returned (NoTree before)
    raised,   \* the exception that left build_directory_structure (NoExc if none)
    changes,  \* how many changes the environment has made to the file system
    cwd,      \* the working directory of the process (a node of fs)
    scanner,  \* the PythonProjectScanner of the running request (NoScanner before)
    handles,  \* the file and directory handles the process holds open
    threads,  \* the suspended requests: thread id -> the locals it resumes with
    current,  \* the id of the thread that is running
    log,      \* what the finished calls returned, oldest first
    net,      \* the ports of localhost that cannot be bound
    deployment_requests,  \* the payload of the POST /deploy being handled
    responses,            \* deploy: the results of the requests handled so far
    disk,     \* the files deploy has written: path -> text
    mock      \* the MockSubstrateDeployment object: its two attributes

vars == <<fs, pc, stack, tree, raised, changes, cwd, scanner, handles, threads,
          current, log, net, deployment_requests, responses, disk, mock>>

\* what startup, /deploy and the substrate mock work on
services == <<net, deployment_requests, responses, disk, mock>>

\* the state outside one scan: the working directory, the other requests and
\* the other services
outside == <<cwd, threads, current, log, services>>

---------------------------------------------------------------------------
(* Bounds of the model.                                                    *)

\* the longest chain of nested directories d/d/d/... below the root
ChainLen == 11

\* how many times the environment may change a directory's mode during a scan
MaxChanges == 1

\* how many directories lie above the deepest working directory tried
TowerHeight == 2

\* the number of requests the application is sent
MaxRequests == 2

---------------------------------------------------------------------------
(* Text as character codes.                                                *)

\* the code points of the texts the file system and the sources below use
Ord ==
    ".py" :> <<46, 112, 121>> @@
    ".git" :> <<46, 103, 105, 116>> @@
    "build" :> <<98, 117, 105, 108, 100>> @@
    "d" :> <<100>> @@
    "pkg" :> <<112, 107, 103>> @@
    "s" :> <<115>> @@
    "a.py" :> <<97, 46, 112, 121>> @@
    "A.py" :> <<65, 46, 112, 121>> @@
    "Z.py" :> <<90, 46, 112, 121>> @@
    "(Test)" :> <<40, 84, 101, 115, 116, 41>> @@
    "sample_function.py" :>
        <<115, 97, 109, 112, 108, 101, 95, 102, 117, 110, 99, 116, 105, 111, 110,
          46, 112, 121>> @@
    "n.md" :> <<110, 46, 109, 100>> @@
    "c.PY" :> <<99, 46, 80, 89>> @@
    ".h.py" :> <<46, 104, 46, 112, 121>> @@
    "hooks.py" :> <<104, 111, 111, 107, 115, 46, 112, 121>> @@
    "gen.py" :> <<103, 101, 110, 46, 112, 121>> @@
    "MAX" :> <<77, 65, 88>> @@
    "LIMIT" :> <<76, 73, 77, 73, 84>> @@
    "RATE" :> <<82, 65, 84, 69>> @@
    "DEBUG" :> <<68, 69, 66, 85, 71>> @@
    "low" :> <<108, 111, 119>> @@
    "high" :> <<104, 105, 103, 104>> @@
    "x" :> <<120>> @@
    "Mixed" :> <<77, 105, 120, 101, 100>> @@
    "_tmp" :> <<95, 116, 109, 112>> @@
    "N1" :> <<78, 49>> @@
    "milk" :> <<109, 105, 108, 107>> @@
    "7" :> <<55>> @@
    "-3" :> <<45, 51>> @@
    "5" :> <<53>> @@
    "True" :> <<84, 114, 117, 101>> @@
    "true" :> <<116, 114, 117, 101>> @@
    "false" :> <<102, 97, 108, 115, 101>> @@
    "N/A" :> <<78, 47, 65>> @@
    "get-ID" :> <<103, 101, 116, 45, 73, 68>> @@
    "Record" :> <<82, 101, 99, 111, 114, 100>> @@
    "create_product_record" :>
        <<99, 114, 101, 97, 116, 101, 95, 112, 114, 111, 100, 117, 99, 116, 95, 114, 101, 99, 111, 114, 100>>

\* ord('.')
DOT == 46

\* str.lower() of one character (ASCII)
LowerChar(c) == IF c >= 65 /\ c <= 90 THEN c + 32 ELSE c

\* str.lower()
Lower(s) == [i \in 1..Len(s) |-> LowerChar(s[i])]

\* str.upper() of one character (ASCII)
UpperChar(c) == IF c >= 97 /\ c <= 122 THEN c - 32 ELSE c

IsUpperChar(c) == c >= 65 /\ c <= 90
IsLowerChar(c) == c >= 97 /\ c <= 122

\* a test of the first character only
IsUpper_Initial(s) == Len(s) >= 1 /\ IsUpperChar(s[1])

\* str.isupper(): at least one cased character and no lower-case one
IsUpper(s) ==
    /\ \E i \in 1..Len(s) : IsUpperChar(s[i])
    /\ \A i \in 1..Len(s) : ~IsLowerChar(s[i])

\* str.startswith('.')
StartsWithDot(s) == Len(s) >= 1 /\ s[1] = DOT

\* str.rfind('.') as a 1-based index, 0 when there is no dot
RFindDot(s) ==
    LET dots == {i \in 1..Len(s) : s[i] = DOT}
    IN  IF dots = {} THEN 0 ELSE CHOOSE i \in dots : \A j \in dots : j <= i

\* pathlib's PurePath.suffix: the text from the last dot on, unless that dot
\* is the first or the last character of the name
Suffix(s) ==
    LET i == RFindDot(s)
    IN  IF i > 1 /\ i < Len(s) THEN SubSeq(s, i, Len(s)) ELSE <<>>

\* s < t in Python's ordering of strings (by code point, a prefix first)
RECURSIVE StrLess(_, _)
StrLess(s, t) ==
    IF t = <<>> THEN FALSE
    ELSE IF s = <<>> THEN TRUE
    ELSE IF Head(s) # Head(t) THEN Head(s) < Head(t)
    ELSE StrLess(Tail(s), Tail(t))


---------------------------------------------------------------------------
(* Python values.                                                          *)

\* None where the code stores a text or None; no rendered text equals it
None == "<None>"

\* None where the syntax tree stores a node or None
NoNode == [type |-> "None"]

\* a dict keeps insertion order: a sequence of entries [key, value]
EmptyDict == <<>>

Keys(d) == {d[i].key : i \in 1..Len(d)}

KeyList(d) == [i \in 1..Len(d) |-> d[i].key]

Values(d) == {d[i].value : i \in 1..Len(d)}

HasKey(d, k) == \E i \in 1..Len(d) : d[i].key = k

Get(d, k) == d[CHOOSE i \in 1..Len(d) : d[i].key = k].value

\* d[k] = v: a present key keeps its place, a new key goes last
DictSet(d, k, v) ==
    IF HasKey(d, k)
    THEN [i \in 1..Len(d) |-> IF d[i].key = k THEN [key |-> k, value |-> v] ELSE d[i]]
    ELSE Append(d, [key |-> k, value |-> v])

---------------------------------------------------------------------------
(* The syntax tree ast.parse returns, as far as the scanner reads it.      *)

Name(id) == [type |-> "Name", id |-> id]

\* a literal; text is the literal as ast.unparse renders it
Constant(kind, text) == [type |-> "Constant", kind |-> kind, text |-> text]

\* an expression nested too deeply for ast.unparse
Deep == [type |-> "Deep"]

Attribute(value, attr) == [type |-> "Attribute", value |-> value, attr |-> attr]

arg(name, annotation) == [arg |-> name, annotation |-> annotation]

arguments(posonlyargs, args, vararg, kwonlyargs, kwarg) ==
    [posonlyargs |-> posonlyargs, args |-> args, vararg |-> vararg,
     kwonlyargs |-> kwonlyargs, kwarg |-> kwarg]

FunctionDef(name, args, body, decorator_list, returns, lineno) ==
    [type |-> "FunctionDef", name |-> name, args |-> args, body |-> body,
     decorator_list |-> decorator_list, returns |-> returns, lineno |-> lineno]

AsyncFunctionDef(name, args, body, decorator_list, returns, lineno) ==
    [type |-> "AsyncFunctionDef", name |-> name, args |-> args, body |-> body,
     decorator_list |-> decorator_list, returns |-> returns, lineno |-> lineno]

ClassDef(name, bases, body, lineno) ==
    [type |-> "ClassDef", name |-> name, bases |-> bases, body |-> body,
     lineno |-> lineno]

Assign(targets, value, lineno) ==
    [type |-> "Assign", targets |-> targets, value |-> value, lineno |-> lineno]

\* target: annotation = value
AnnAssign(target, annotation, value, lineno) ==
    [type |-> "AnnAssign", target |-> target, annotation |-> annotation,
     value |-> value, lineno |-> lineno]

\* target += value
AugAssign(target, value, lineno) ==
    [type |-> "AugAssign", target |-> target, value |-> value, lineno |-> lineno]

\* a target that unpacks: a, b = ...
Tuple(elts) == [type |-> "Tuple", elts |-> elts]

alias(name, asname) == [name |-> name, asname |-> asname]

Import(names, lineno) == [type |-> "Import", names |-> names, lineno |-> lineno]

ImportFrom(module, names, lineno) ==
    [type |-> "ImportFrom", module |-> module, names |-> names, lineno |-> lineno]

\* an if statement; its test holds no statement and is left out
If(body, orelse, lineno) ==
    [type |-> "If", body |-> body, orelse |-> orelse, lineno |-> lineno]

\* an expression statement (a docstring when it is a str literal)
Expr(value, lineno) == [type |-> "Expr", value |-> value, lineno |-> lineno]

Return(lineno) == [type |-> "Return", lineno |-> lineno]

Module(body) == [type |-> "Module", body |-> body]

NoArgs == arguments(<<>>, <<>>, NoNode, <<>>, NoNode)

\* the statements that are direct children of a node, in field order
ChildStmts(node) ==
    IF node.type \in {"Module", "FunctionDef", "AsyncFunctionDef", "ClassDef"}
    THEN node.body
    ELSE IF node.type = "If" THEN node.body \o node.orelse
    ELSE <<>>

\* ast.walk: breadth first from the nodes of todo
RECURSIVE Walk(_)
Walk(todo) ==
    IF todo = <<>> THEN <<>>
    ELSE <<Head(todo)>> \o Walk(Tail(todo) \o ChildStmts(Head(todo)))

\* ast.unparse of an expression
RECURSIVE Unparse(_)
Unparse(e) ==
    IF e.type = "Name" THEN e.id
    ELSE IF e.type = "Constant" THEN e.text
    ELSE Unparse(e.value) \o "." \o e.attr

\* ast.unparse raises (RecursionError) on an expression nested deeper than
\* the interpreter's recursion limit, which ast.parse still accepts
RECURSIVE CanUnparse(_)
CanUnparse(e) ==
    IF e.type = "Deep" THEN FALSE
    ELSE IF e.type = "Attribute" THEN CanUnparse(e.value)
    ELSE TRUE

\* try: ast.unparse(e)  except: fallback
UnparseOr(e, fallback) == IF CanUnparse(e) THEN Unparse(e) ELSE fallback

\* ast.get_docstring: the text of a leading str literal, None without one
get_docstring(node) ==
    IF /\ node.body # <<>>
       /\ node.body[1].type = "Expr"
       /\ node.body[1].value.type = "Constant"
       /\ node.body[1].value.kind = "str"
    THEN node.body[1].value.text
    ELSE None

\* x or default, for a text x: None and the empty text are false
OrElse(x, default) == IF x = None \/ x = "" THEN default ELSE x

\* the concatenation of the sequences of a sequence
RECURSIVE Flatten(_)
Flatten(ss) == IF ss = <<>> THEN <<>> ELSE Head(ss) \o Flatten(Tail(ss))

---------------------------------------------------------------------------
(* PythonProjectScanner: the analysis of one file.                         *)

analyze_function(func_node) ==
    LET a == func_node.args
        positional ==
            [i \in 1..Len(a.args) |->
                [name |-> a.args[i].arg,
                 type |-> IF a.args[i].annotation # NoNode
                          THEN UnparseOr(a.args[i].annotation, "unknown")
                          ELSE None]]
        vararg == IF a.vararg # NoNode
                  THEN <<[name |-> "*" \o a.vararg.arg, type |-> "varargs"]>>
                  ELSE <<>>
        kwarg == IF a.kwarg # NoNode
                 THEN <<[name |-> "**" \o a.kwarg.arg, type |-> "kwargs"]>>
                 ELSE <<>>
    IN  [name |-> func_node.name,
         line |-> func_node.lineno,
         args |-> positional \o vararg \o kwarg,
         return_type |-> IF func_node.returns # NoNode
                         THEN UnparseOr(func_node.returns, "unknown") ELSE None,
         decorators |-> [i \in 1..Len(func_node.decorator_list) |->
                            UnparseOr(func_node.decorator_list[i], "decorator")],
         docstring |-> OrElse(get_docstring(func_node), "No documentation"),
         is_async |-> func_node.type = "AsyncFunctionDef"]

\* the entries one assignment gives: one per target that is a plain name
\* (and, for a constant, an upper-case one)
AssignEntries(node, upper_only) ==
    LET IsKept(t) == t.type = "Name" /\ (upper_only => IsUpper(Ord[t.id]))
        kept == SelectSeq(node.targets, IsKept)
    IN  [i \in 1..Len(kept) |->
            [name |-> kept[i].id, value |-> UnparseOr(node.value, "complex_value"),
             line |-> node.lineno]]

\* analyze_class collecting the functions found anywhere below the class
analyze_class_WalksBody(class_node) ==
    LET IsMethod(c) == c.type \in {"FunctionDef", "AsyncFunctionDef"}
        IsAssign(c) == c.type = "Assign"
        defs == SelectSeq(Walk(class_node.body), IsMethod)
        assigns == SelectSeq(class_node.body, IsAssign)
    IN  [name |-> class_node.name,
         line |-> class_node.lineno,
         methods |-> [i \in 1..Len(defs) |-> analyze_function(defs[i])],
         attributes |-> Flatten([i \in 1..Len(assigns) |->
                                    AssignEntries(assigns[i], FALSE)]),
         bases |-> [i \in 1..Len(class_node.bases) |->
                      UnparseOr(class_node.bases[i], "unknown_base")],
         docstring |-> OrElse(get_docstring(class_node), "No documentation")]

analyze_class(class_node) ==
    LET IsMethod(c) == c.type \in {"FunctionDef", "AsyncFunctionDef"}
        IsAssign(c) == c.type = "Assign"
        defs == SelectSeq(class_node.body, IsMethod)
        assigns == SelectSeq(class_node.body, IsAssign)
    IN  [name |-> class_node.name,
         line |-> class_node.lineno,
         methods |-> [i \in 1..Len(defs) |-> analyze_function(defs[i])],
         attributes |-> Flatten([i \in 1..Len(assigns) |->
                                    AssignEntries(assigns[i], FALSE)]),
         bases |-> [i \in 1..Len(class_node.bases) |->
                      UnparseOr(class_node.bases[i], "unknown_base")],
         docstring |-> OrElse(get_docstring(class_node), "No documentation")]

\* analyze_constants reading the statements of the module body only
analyze_constants_TopLevelOnly(tree_) ==
    LET IsAssign(n) == n.type = "Assign"
        assigns == SelectSeq(tree_.body, IsAssign)
    IN  Flatten([i \in 1..Len(assigns) |-> AssignEntries(assigns[i], TRUE)])

analyze_constants(tree_) ==
    LET IsAssign(n) == n.type = "Assign"
        assigns == SelectSeq(Walk(<<tree_>>), IsAssign)
    IN  Flatten([i \in 1..Len(assigns) |-> AssignEntries(assigns[i], TRUE)])

\* the entries of a from-import that leave the symbol out
ImportEntries_ModuleOnly(node) ==
    IF node.type = "Import"
    THEN [i \in 1..Len(node.names) |->
            [module |-> node.names[i].name, alias |-> node.names[i].asname,
             type |-> "import"]]
    ELSE [i \in 1..Len(node.names) |->
            [module |-> OrElse(node.module, ""), alias |-> node.names[i].asname,
             type |-> "from_import"]]

ImportEntries(node) ==
    IF node.type = "Import"
    THEN [i \in 1..Len(node.names) |->
            [module |-> node.names[i].name, alias |-> node.names[i].asname,
             type |-> "import"]]
    ELSE LET module == OrElse(node.module, "")
         IN  [i \in 1..Len(node.names) |->
                [module |-> IF module # ""
                            THEN module \o "." \o node.names[i].name
                            ELSE node.names[i].name,
                 alias |-> node.names[i].asname,
                 type |-> "from_import"]]

analyze_imports(tree_) ==
    LET IsImport(n) == n.type \in {"Import", "ImportFrom"}
        found == SelectSeq(Walk(<<tree_>>), IsImport)
    IN  Flatten([i \in 1..Len(found) |-> ImportEntries(found[i])])

---------------------------------------------------------------------------
(* Exceptions, and the outcome of a call that may raise.                   *)

Exc(type, msg) == [type |-> type, msg |-> msg]

NoExc == Exc("none", "")

\* the classes an exception of each type is an instance of
Bases(type) ==
    IF type \in {"PermissionError", "FileNotFoundError"}
    THEN {type, "OSError", "Exception", "BaseException"}
    ELSE IF type \in {"SyntaxError", "MemoryError", "OSError", "OverflowError",
                       "KeyError", "TypeError", "AttributeError",
                       "CalledProcessError"}
    THEN {type, "Exception", "BaseException"}
    ELSE {type, "BaseException"}

IsInstance(e, class) == class \in Bases(e.type)

Returned(v) == [ok |-> TRUE, value |-> v]

Raised(e) == [ok |-> FALSE, exc |-> e]

---------------------------------------------------------------------------
(* The file system.                                                        *)

ROOT == 0

max_depth == 10

Modes == {"rwx", "r--", "---"}

CanRead(mode) == mode \in {"rwx", "r--"}

CanSearch(mode) == mode = "rwx"

Dir(name, parent, mode) ==
    [kind |-> "dir", name |-> name, parent |-> parent, mode |-> mode]

File(name, parent, content) ==
    [kind |-> "file", name |-> name, parent |-> parent, content |-> content]

\* a path that names nothing
Missing(name, parent) == [kind |-> "missing", name |-> name, parent |-> parent]

\* what a file holds: a source text that parses to tree, or one of the ways
\* reading or parsing it fails
Source(tree_, lines) == [state |-> "source", tree |-> tree_, lines |-> lines]

Unreadable == [state |-> "unreadable"]

InvalidSyntax == [state |-> "invalid_syntax"]

TooNested == [state |-> "too_nested"]

\* not a file of its own but a symbolic link to a file in a directory the
\* process may not search: the link is listed, os.stat of it is refused
DeniedLink == [state |-> "denied_link"]

\* every directory on the way from the root to node n can be searched
RECURSIVE Reachable(_, _)
Reachable(f, n) ==
    \/ n = ROOT
    \/ /\ f[f[n].parent].kind = "dir"
       /\ CanSearch(f[f[n].parent].mode)
       /\ Reachable(f, f[n].parent)

\* a symbolic link to directory target: is_dir() follows it, and so does
\* the listing
Link(name, parent, target) ==
    [kind |-> "dir", name |-> name, parent |-> parent, mode |-> "rwx", link |-> target]

\* the directory that path d names once links are followed
Real(f, d) == IF "link" \in DOMAIN f[d] THEN f[d].link ELSE d

Children(f, d) == {n \in DOMAIN f : n # ROOT /\ f[n].parent = Real(f, d)}

\* the path of node n below the root, as str(path) names it
RECURSIVE PathOf(_, _)
PathOf(f, n) == IF n = ROOT THEN <<>> ELSE Append(PathOf(f, f[n].parent), f[n].name)

\* Path.iterdir: the entries of directory d, in the order given
iterdir(f, d, order) ==
    IF f[d].kind = "missing"
    THEN Raised(Exc("FileNotFoundError", "[Errno 2] No such file or directory"))
    ELSE IF f[d].kind # "dir"
    THEN Raised(Exc("OSError", "[Errno 20] Not a directory"))
    ELSE IF ~(Reachable(f, d) /\ CanRead(f[Real(f, d)].mode))
    THEN Raised(Exc("PermissionError", "[Errno 13] Permission denied"))
    ELSE Returned(order)

\* os.stat of entry n as Path.is_dir and Path.is_file use it: a refusal is
\* raised (EACCES is not among the errors pathlib ignores)
stat(f, n) ==
    IF ~Reachable(f, n) \/ (f[n].kind = "file" /\ f[n].content = DeniedLink)
    THEN Raised(Exc("PermissionError", "[Errno 13] Permission denied"))
    ELSE Returned(f[n].kind)

\* every sequence that holds each element of set once
RECURSIVE Arrangements(_)
Arrangements(set) ==
    IF set = {} THEN {<<>>}
    ELSE UNION {{<<x>> \o rest : rest \in Arrangements(set \ {x})} : x \in set}

\* every order in which the system may list the entries of d
Orders(f, d) == Arrangements(Children(f, d))

---------------------------------------------------------------------------
(* PythonProjectScanner: the constructor, which settles the project path.  *)

\* the argument project_path: None, or a path
NoArg == [given |-> FALSE]

PathArg(p) == [given |-> TRUE, path |-> p]

\* a scanner object: its one attribute
Scanner(project_path) == [project_path |-> project_path]

\* no scanner has been constructed
NoScanner == [none |-> TRUE]

project_indicators ==
    <<"setup.py", "pyproject.toml", "requirements.txt",
      "Pipfile", "poetry.lock", "environment.yml",
      ".git", "src", "lib", "app", "apps">>

\* (d / name).exists(): os.stat of the path; a missing path is False, a
\* refusal is raised (Path.exists ignores ENOENT and ENOTDIR, not EACCES)
exists(f, d, name) ==
    LET named == {c \in Children(f, d) : f[c].name = name}
        c == CHOOSE c \in named : TRUE
    IN  IF f[d].kind # "dir" THEN Returned(FALSE)
        ELSE IF ~(Reachable(f, d) /\ CanSearch(f[d].mode))
        THEN Raised(Exc("PermissionError", "[Errno 13] Permission denied"))
        ELSE IF named = {} THEN Returned(FALSE)
        ELSE IF ~stat(f, c).ok THEN stat(f, c)
        ELSE Returned(f[c].kind # "missing")

\* any((d / indicator).exists() for indicator in names): the indicators are
\* tried in order and the first that exists ends the search
RECURSIVE AnyExists(_, _, _)
AnyExists(f, d, names) ==
    IF names = <<>> THEN Returned(FALSE)
    ELSE LET e == exists(f, d, Head(names))
         IN  IF ~e.ok THEN e
             ELSE IF e.value THEN Returned(TRUE)
             ELSE AnyExists(f, d, Tail(names))

\* Path.parents: the ancestors of n, the nearest first
RECURSIVE parents(_, _)
parents(f, n) == IF n = ROOT THEN <<>> ELSE <<f[n].parent>> \o parents(f, f[n].parent)

\* the loop over the parents without its break: the last match is kept
RECURSIVE FirstRoot_NoBreak(_, _, _)
FirstRoot_NoBreak(f, dirs, fallback) ==
    IF dirs = <<>> THEN Returned(fallback)
    ELSE LET hit == AnyExists(f, Head(dirs), project_indicators)
         IN  IF ~hit.ok THEN hit
             ELSE IF hit.value THEN FirstRoot_NoBreak(f, Tail(dirs), Head(dirs))
             ELSE FirstRoot_NoBreak(f, Tail(dirs), fallback)

\* for parent in current.parents: ... break / else: the first of dirs that
\* holds an indicator, fallback when none does
RECURSIVE FirstRoot(_, _, _)
FirstRoot(f, dirs, fallback) ==
    IF dirs = <<>> THEN Returned(fallback)
    ELSE LET hit == AnyExists(f, Head(dirs), project_indicators)
         IN  IF ~hit.ok THEN hit
             ELSE IF hit.value THEN Returned(Head(dirs))
             ELSE FirstRoot(f, Tail(dirs), fallback)

\* PythonProjectScanner(project_path) in working directory current: the
\* scanner constructed, or the exception the constructor raises
PythonProjectScanner(f, current_, project_path) ==
    LET here == AnyExists(f, current_, project_indicators)
        found == IF ~here.ok THEN here
                 ELSE IF here.value THEN Returned(current_)
                 ELSE FirstRoot(f, parents(f, current_), current_)
    IN  IF project_path.given THEN Returned(Scanner(project_path.path))
        ELSE IF found.ok THEN Returned(Scanner(found.value))
        ELSE found

---------------------------------------------------------------------------
(* PythonProjectScanner: one file.                                         *)

\* open(file_path, 'r', encoding='utf-8', errors='ignore') and f.read()
read(f, n) ==
    IF ~Reachable(f, n) \/ f[n].content.state = "unreadable"
    THEN Raised(Exc("PermissionError", "[Errno 13] Permission denied"))
    ELSE Returned(f[n].content)

\* ast.parse(content)
parse(content) ==
    IF content.state = "invalid_syntax"
    THEN Raised(Exc("SyntaxError", "invalid syntax (<unknown>, line 1)"))
    ELSE IF content.state = "too_nested"
    THEN Raised(Exc("MemoryError", ""))
    ELSE Returned(content.tree)

\* the try block counting the methods of the classes as functions
ScanBody_CountsMethods(f, n) ==
    LET content == read(f, n)
        tree_ == parse(content.value)
        IsFunction(s) == s.type \in {"FunctionDef", "AsyncFunctionDef"}
        IsClass(s) == s.type = "ClassDef"
        fdefs == SelectSeq(tree_.value.body, IsFunction)
        cdefs == SelectSeq(tree_.value.body, IsClass)
        functions == [i \in 1..Len(fdefs) |-> analyze_function(fdefs[i])]
        classes == [i \in 1..Len(cdefs) |-> analyze_class(cdefs[i])]
        methods == Flatten([i \in 1..Len(classes) |-> classes[i].methods])
        constants == analyze_constants(tree_.value)
        imports == analyze_imports(tree_.value)
    IN  IF ~content.ok THEN content
        ELSE IF ~tree_.ok THEN tree_
        ELSE Returned(
            [file_path |-> PathOf(f, n),
             functions |-> functions,
             classes |-> classes,
             constants |-> constants,
             imports |-> imports,
             total_functions |-> Len(functions) + Len(methods),
             total_classes |-> Len(classes),
             total_constants |-> Len(constants),
             lines |-> content.value.lines])

\* the body of the try block of scan_python_file
ScanBody(f, n) ==
    LET content == read(f, n)
        tree_ == parse(content.value)
        IsFunction(s) == s.type \in {"FunctionDef", "AsyncFunctionDef"}
        IsClass(s) == s.type = "ClassDef"
        fdefs == SelectSeq(tree_.value.body, IsFunction)
        cdefs == SelectSeq(tree_.value.body, IsClass)
        functions == [i \in 1..Len(fdefs) |-> analyze_function(fdefs[i])]
        classes == [i \in 1..Len(cdefs) |-> analyze_class(cdefs[i])]
        constants == analyze_constants(tree_.value)
        imports == analyze_imports(tree_.value)
    IN  IF ~content.ok THEN content
        ELSE IF ~tree_.ok THEN tree_
        ELSE Returned(
            [file_path |-> PathOf(f, n),
             functions |-> functions,
             classes |-> classes,
             constants |-> constants,
             imports |-> imports,
             total_functions |-> Len(functions),
             total_classes |-> Len(classes),
             total_constants |-> Len(constants),
             lines |-> content.value.lines])

\* the except branch without the key 'lines'
ErrorAnalysis_NoLines(f, n, e) ==
    [file_path |-> PathOf(f, n),
     error |-> e.msg,
     functions |-> <<>>,
     classes |-> <<>>,
     constants |-> <<>>,
     imports |-> <<>>,
     total_functions |-> 0,
     total_classes |-> 0,
     total_constants |-> 0]

\* the value of the except branch of scan_python_file
ErrorAnalysis(f, n, e) ==
    [file_path |-> PathOf(f, n),
     error |-> e.msg,
     functions |-> <<>>,
     classes |-> <<>>,
     constants |-> <<>>,
     imports |-> <<>>,
     total_functions |-> 0,
     total_classes |-> 0,
     total_constants |-> 0,
     lines |-> 0]

\* except Exception as e
scan_catches(e) == IsInstance(e, "Exception")

scan_python_file(f, n) ==
    LET r == ScanBody(f, n)
    IN  IF r.ok THEN r
        ELSE IF scan_catches(r.exc) THEN Returned(ErrorAnalysis(f, n, r.exc))
        ELSE r

FileHandle(n) == [kind |-> "file", id |-> n]

\* scan_python_file closing the file as the last statement of its try body
scan_handles_CloseAtEnd(f, n) ==
    LET opened == IF read(f, n).ok THEN {FileHandle(n)} ELSE {}
        closed == IF ScanBody(f, n).ok THEN opened ELSE {}
    IN  opened \ closed

\* the handles scan_python_file holds when it returns: open() gives one
\* unless it raises, and the with statement closes it however its block ends
scan_handles(f, n) ==
    LET opened == IF read(f, n).ok THEN {FileHandle(n)} ELSE {}
        closed == opened
    IN  opened \ closed

---------------------------------------------------------------------------
(* PythonProjectScanner: the walk of the directories.                      *)

skip_dirs ==
    {"__pycache__", ".git", ".svn", ".hg",
     "node_modules", ".venv", "venv", "env",
     ".pytest_cache", ".mypy_cache", ".tox",
     "build", "dist", ".egg-info", "htmlcov",
     ".coverage", ".idea", ".vscode", ".DS_Store"}

\* should_skip_directory without the deny-set
should_skip_directory_DotOnly(name) == StartsWithDot(Ord[name])

should_skip_directory(name) == name \in skip_dirs \/ StartsWithDot(Ord[name])

\* the sort key with the name as it is written
SortKey_CaseSensitive(f, n) == [is_file |-> f[n].kind = "file", lower |-> Ord[f[n].name]]

\* the sort key of an entry: (x.is_file(), x.name.lower())
SortKey(f, n) == [is_file |-> f[n].kind = "file", lower |-> Lower(Ord[f[n].name])]

\* k1 < k2 for two sort keys (False < True, then the names)
KeyLess(k1, k2) ==
    \/ ~k1.is_file /\ k2.is_file
    \/ k1.is_file = k2.is_file /\ StrLess(k1.lower, k2.lower)

\* sorted(): stable, so entries with equal keys keep the order of the input
RECURSIVE Sorted(_, _)
Sorted(f, items) ==
    IF items = <<>> THEN <<>>
    ELSE LET rest == Sorted(f, SubSeq(items, 1, Len(items) - 1))
             x == items[Len(items)]
             before == {i \in 1..Len(rest) :
                           ~KeyLess(SortKey(f, x), SortKey(f, rest[i]))}
             pos == Cardinality(before)
         IN  SubSeq(rest, 1, pos) \o <<x>> \o SubSeq(rest, pos + 1, Len(rest))

\* sorted(dir_path.iterdir(), key=lambda x: (x.is_file(), x.name.lower()))
sorted_iterdir(f, d, order) ==
    LET listed == iterdir(f, d, order)
    IN  IF ~listed.ok THEN listed
        ELSE IF \E i \in 1..Len(order) : ~stat(f, order[i]).ok
        THEN stat(f, order[CHOOSE i \in 1..Len(order) : ~stat(f, order[i]).ok])
        ELSE Returned(Sorted(f, listed.value))

DirHandle(d) == [kind |-> "dir", id |-> d]

\* the listing drawing an entry only when its sort key is computed
listing_handles_Lazy(f, d, depth) ==
    LET opened == IF depth < max_depth /\ iterdir(f, d, <<>>).ok
                  THEN {DirHandle(d)} ELSE {}
        exhausted == IF \A c \in Children(f, d) : stat(f, c).ok THEN opened ELSE {}
    IN  opened \ exhausted

\* the directory handles held once process_directory has listed d: iterdir
\* opens the directory unless that is refused, and sorted() draws every
\* entry, which closes it, before it computes the first sort key
listing_handles(f, d, depth) ==
    LET opened == IF depth < max_depth /\ iterdir(f, d, <<>>).ok
                  THEN {DirHandle(d)} ELSE {}
        exhausted == opened
    IN  opened \ exhausted

EmptyNode == [folders |-> EmptyDict, files |-> EmptyDict]

WithError(node, msg) == [folders |-> node.folders, files |-> node.files, error |-> msg]

DepthMarker == WithError(EmptyNode, "Max depth reached")

\* the except clauses without 'except Exception'
dir_except_PermissionOnly(result, e) ==
    IF IsInstance(e, "PermissionError")
    THEN Returned([folders |-> result.folders, files |-> result.files,
                   error |-> "Permission denied"])
    ELSE Raised(e)

\* the except clauses answering with a fresh node
dir_except_DropsEntries(result, e) ==
    IF IsInstance(e, "PermissionError")
    THEN Returned([folders |-> <<>>, files |-> <<>>, error |-> "Permission denied"])
    ELSE IF IsInstance(e, "Exception")
    THEN Returned([folders |-> <<>>, files |-> <<>>, error |-> e.msg])
    ELSE Raised(e)

\* the except clauses of process_directory, applied to the result so far
dir_except(result, e) ==
    IF IsInstance(e, "PermissionError")
    THEN Returned(WithError(result, "Permission denied"))
    ELSE IF IsInstance(e, "Exception")
    THEN Returned(WithError(result, e.msg))
    ELSE Raised(e)

\* an activation of process_directory: the directory, its depth, the sorted
\* entries not yet visited, the result so far, and whether the loop still
\* runs ("loop") or the function is about to return result ("return")
Frame(dir, depth, items, result, at) ==
    [dir |-> dir, depth |-> depth, items |-> items, result |-> result, at |-> at]

\* process_directory testing current_depth > max_depth
process_directory_OffByOne(f, dir_path, current_depth, order) ==
    IF current_depth > max_depth
    THEN Returned(Frame(dir_path, current_depth, <<>>, DepthMarker, "return"))
    ELSE LET items == sorted_iterdir(f, dir_path, order)
             handled == dir_except(EmptyNode, items.exc)
         IN  IF items.ok
             THEN Returned(Frame(dir_path, current_depth, items.value, EmptyNode, "loop"))
             ELSE IF handled.ok
             THEN Returned(Frame(dir_path, current_depth, <<>>, handled.value, "return"))
             ELSE handled

\* process_directory(dir_path, max_depth, current_depth) up to its loop
process_directory(f, dir_path, current_depth, order) ==
    IF current_depth >= max_depth
    THEN Returned(Frame(dir_path, current_depth, <<>>, DepthMarker, "return"))
    ELSE LET items == sorted_iterdir(f, dir_path, order)
             handled == dir_except(EmptyNode, items.exc)
         IN  IF items.ok
             THEN Returned(Frame(dir_path, current_depth, items.value, EmptyNode, "loop"))
             ELSE IF handled.ok
             THEN Returned(Frame(dir_path, current_depth, <<>>, handled.value, "return"))
             ELSE handled

\* the loop body that leaves the entry it handled at the head of the loop
loop_body_NoAdvance(f, frame, item) ==
    LET kind == stat(f, item)
        name == f[item].name
        analysis == scan_python_file(f, item)
        failed(e) ==
            LET handled == dir_except(frame.result, e)
            IN  IF handled.ok
                THEN Returned([frame EXCEPT !.result = handled.value, !.at = "return"])
                ELSE handled
    IN  IF ~kind.ok THEN failed(kind.exc)
        ELSE IF Suffix(Ord[name]) = Ord[".py"] /\ analysis.ok
        THEN Returned([frame EXCEPT !.result.files =
                          DictSet(frame.result.files, name, analysis.value)])
        ELSE Returned(frame)

\* one pass of the loop body over entry item of the innermost activation:
\* the activation afterwards, or the exception the pass lets through.
\* A directory entry is not handled here: its pass is a call (Descend).
loop_body(f, frame, item) ==
    LET kind == stat(f, item)
        name == f[item].name
        skip == IF kind.value = "dir" THEN should_skip_directory(name)
                ELSE StartsWithDot(Ord[name])
        analysis == scan_python_file(f, item)
        next == [frame EXCEPT !.items = Tail(frame.items)]
        failed(e) ==
            LET handled == dir_except(frame.result, e)
            IN  IF handled.ok
                THEN Returned([frame EXCEPT !.result = handled.value, !.at = "return"])
                ELSE handled
    IN  IF ~kind.ok THEN failed(kind.exc)
        ELSE IF skip THEN Returned(next)
        ELSE IF Suffix(Ord[name]) = Ord[".py"]
        THEN IF analysis.ok
             THEN Returned([next EXCEPT !.result.files =
                               DictSet(frame.result.files, name, analysis.value)])
             ELSE failed(analysis.exc)
        ELSE Returned(next)

\* the handles one pass of the loop body leaves open: those of the scan of
\* the entry when the pass scans it
loop_handles(f, item) ==
    IF /\ stat(f, item).ok
       /\ stat(f, item).value = "file"
       /\ ~StartsWithDot(Ord[f[item].name])
       /\ Suffix(Ord[f[item].name]) = Ord[".py"]
    THEN scan_handles(f, item)
    ELSE {}

NoTree == [none |-> TRUE]

Top == stack[Len(stack)]

\* the state after an exception left the outermost process_directory
Unwind(e) ==
    /\ raised' = e
    /\ stack' = <<>>
    /\ pc' = "done"
    /\ UNCHANGED <<fs, tree, changes, scanner, outside>>

\* build_directory_structure is called: process_directory(self.project_path)
Build ==
    /\ pc = "idle"
    /\ handles' = handles \cup listing_handles(fs, scanner.project_path, 0)
    /\ \E order \in Orders(fs, scanner.project_path) :
          LET r == process_directory(fs, scanner.project_path, 0, order)
          IN  IF r.ok
              THEN /\ stack' = <<r.value>>
                   /\ pc' = "scanning"
                   /\ UNCHANGED <<fs, tree, raised, changes, scanner, outside>>
              ELSE Unwind(r.exc)

\* the entry at the head of the loop is a directory that is not skipped
IsDescent(f, frame) ==
    /\ frame.at = "loop"
    /\ frame.items # <<>>
    /\ stat(f, Head(frame.items)).ok
    /\ stat(f, Head(frame.items)).value = "dir"
    /\ ~should_skip_directory(f[Head(frame.items)].name)

\* the loop visits an entry that is a file, is skipped, or cannot be stat'ed
Visit ==
    /\ pc = "scanning"
    /\ Top.at = "loop"
    /\ Top.items # <<>>
    /\ ~IsDescent(fs, Top)
    /\ handles' = handles \cup loop_handles(fs, Head(Top.items))
    /\ LET r == loop_body(fs, Top, Head(Top.items))
       IN  IF r.ok
           THEN /\ stack' = [stack EXCEPT ![Len(stack)] = r.value]
                /\ UNCHANGED <<fs, pc, tree, raised, changes, scanner, outside>>
           ELSE Unwind(r.exc)

\* the loop visits a sub-directory: the recursive call of process_directory
Descend ==
    /\ pc = "scanning"
    /\ IsDescent(fs, Top)
    /\ handles' = handles \cup listing_handles(fs, Head(Top.items), Top.depth + 1)
    /\ \E order \in Orders(fs, Head(Top.items)) :
          LET r == process_directory(fs, Head(Top.items), Top.depth + 1, order)
          IN  IF r.ok
              THEN /\ stack' = Append(stack, r.value)
                   /\ UNCHANGED <<fs, pc, tree, raised, changes, scanner, outside>>
              ELSE Unwind(r.exc)

\* process_directory returns result: to the loop of its caller, which stores
\* it under the entry's name, or to build_directory_structure
ReturnResult ==
    /\ pc = "scanning"
    /\ Top.at = "return" \/ Top.items = <<>>
    /\ UNCHANGED handles
    /\ IF Len(stack) = 1
       THEN /\ tree' = Top.result
            /\ stack' = <<>>
            /\ pc' = "done"
            /\ UNCHANGED <<fs, raised, changes, scanner, outside>>
       ELSE LET caller == stack[Len(stack) - 1]
                name == fs[Top.dir].name
                after == [caller EXCEPT
                            !.result.folders = DictSet(caller.result.folders, name, Top.result),
                            !.items = Tail(caller.items)]
            IN  /\ stack' = Append(SubSeq(stack, 1, Len(stack) - 2), after)
                /\ UNCHANGED <<fs, pc, tree, raised, changes, scanner, outside>>

\* the directories whose mode the environment changes during a scan
ChmodTargets == {n \in DOMAIN fs : fs[n].kind = "dir" /\ fs[n].name = "pkg"} \cup {ROOT}

\* another process changes the mode of a directory while the scan runs
Chmod ==
    /\ pc = "scanning"
    /\ changes < MaxChanges
    /\ \E d \in ChmodTargets, m \in Modes :
          /\ fs[d].kind = "dir"
          /\ fs[d].mode # m
          /\ fs' = [fs EXCEPT ![d].mode = m]
    /\ changes' = changes + 1
    /\ UNCHANGED <<pc, stack, tree, raised, scanner, handles, outside>>

---------------------------------------------------------------------------
(* The sources and the file systems the scan is run on.                    *)

\* (Test)/sample_function.py: one function with four annotated parameters
SampleFunction ==
    Module(<<
        FunctionDef("create_product_record",
            arguments(<<>>,
                <<arg("product_id", Name("str")), arg("product_name", Name("str")),
                  arg("price", Name("int")), arg("is_available", Name("bool"))>>,
                NoNode, <<>>, NoNode),
            <<Expr(Constant("str", "A sample function that creates a new product record."), 3),
              Return(9)>>,
            <<>>, Name("str"), 2)
    >>)

\* a file with one class of two bases, two methods (one holding a nested
\* function) and attributes, one of them in upper case, followed by
\* imports: two modules in one statement, a relative import that names no
\* module (from . import sib), two symbols of one module
SampleClass ==
    Module(<<
        ClassDef("Ledger", <<Name("object"), Attribute(Name("base"), "Model")>>,
            <<Assign(<<Name("RATE")>>, Constant("int", "3"), 2),
              FunctionDef("add", arguments(<<>>, <<arg("self", NoNode)>>, NoNode, <<>>, NoNode),
                  <<FunctionDef("helper", NoArgs, <<Return(5)>>, <<>>, NoNode, 4),
                    Return(6)>>,
                  <<>>, NoNode, 3),
              AsyncFunctionDef("flush", arguments(<<>>, <<arg("self", NoNode)>>, NoNode, <<>>, NoNode),
                  <<Assign(<<Attribute(Name("self"), "N1")>>, Constant("int", "0"), 8),
                    Return(9)>>,
                  <<>>, NoNode, 7),
              Assign(<<Name("low"), Attribute(Name("self"), "N1"), Name("high")>>,
                     Name("RATE"), 10),
              AnnAssign(Name("x"), Name("int"), Constant("int", "0"), 11)>>,
            1),
        Import(<<alias("os.path", "p"), alias("sys", None)>>, 12),
        ImportFrom(None, <<alias("sib", None)>>, 13),
        ImportFrom("a.b", <<alias("c", "d"), alias("e", None)>>, 14)
    >>)

\* a file with declarations and upper-case assignments at several depths,
\* and with the other statements that bind a name; its one top-level
\* function is def outer(a, /, b: int, c, *rest, key: str, **kw)
SampleNested ==
    Module(<<
        Import(<<alias("os", None)>>, 1),
        Assign(<<Name("MAX")>>, Constant("int", "10"), 2),
        Assign(<<Name("Mixed")>>, Constant("int", "1"), 3),
        FunctionDef("outer",
            arguments(<<arg("a", NoNode)>>, <<arg("b", Name("int")), arg("c", NoNode)>>,
                      arg("rest", NoNode), <<arg("key", Name("str"))>>, arg("kw", NoNode)),
            <<Assign(<<Name("LIMIT")>>, Constant("int", "2"), 5),
              FunctionDef("inner", NoArgs, <<Return(7)>>, <<>>, NoNode, 6),
              ClassDef("Local", <<>>, <<Assign(<<Name("x")>>, Constant("int", "0"), 9)>>, 8),
              Return(10)>>,
            <<>>, NoNode, 4),
        If(<<Assign(<<Name("DEBUG")>>, Constant("bool", "True"), 12),
             FunctionDef("guarded", NoArgs, <<Return(14)>>, <<>>, NoNode, 13)>>,
           <<ImportFrom("a", <<alias("b", "c")>>, 16)>>,
           11),
        AnnAssign(Name("RATE"), Name("int"), Constant("int", "3"), 17),
        Assign(<<Tuple(<<Name("LIMIT"), Name("DEBUG")>>)>>, Name("x"), 18),
        AugAssign(Name("MAX"), Constant("int", "1"), 19),
        Assign(<<Name("MAX"), Name("LIMIT")>>, Constant("int", "0"), 20)
    >>)

\* what the entry pkg/a.py may be
AContents ==
    {Source(SampleFunction, 10), Source(SampleClass, 14), Source(SampleNested, 20),
     Source(Module(<<>>), 0), Unreadable, InvalidSyntax, TooNested, DeniedLink}

\* the chain lengths tried: none, and beyond the depth limit
ChainLens == {0, ChainLen}

\* what the directory pkg/s may be: its mode, and what its entry n.md is
SubStates ==
    {[mode |-> "rwx", md |-> InvalidSyntax],
     [mode |-> "---", md |-> InvalidSyntax],
     [mode |-> "rwx", md |-> DeniedLink]}

\* the project: a chain of len directories d/d/..., two directories the walk
\* must skip, a package with files of every kind, and two files at the root
Project(len, pkgMode, sub, a) ==
    [n \in {ROOT} \cup (1..len) \cup (101..114) |->
        IF n = ROOT THEN Dir("proj", ROOT, "rwx")
        ELSE IF n <= len THEN Dir("d", n - 1, "rwx")
        ELSE IF n = 101 THEN Dir(".git", ROOT, "rwx")
        ELSE IF n = 102 THEN File("hooks.py", 101, Source(SampleFunction, 10))
        ELSE IF n = 103 THEN Dir("build", ROOT, "rwx")
        ELSE IF n = 104 THEN File("gen.py", 103, Source(SampleFunction, 10))
        ELSE IF n = 105 THEN Dir("pkg", ROOT, pkgMode)
        ELSE IF n = 106 THEN File("a.py", 105, a)
        ELSE IF n = 107 THEN File("A.py", 105, Source(SampleClass, 14))
        ELSE IF n = 108 THEN File("n.md", 105, InvalidSyntax)
        ELSE IF n = 109 THEN File(".h.py", 105, Source(SampleFunction, 10))
        ELSE IF n = 110 THEN Dir("s", 105, sub.mode)
        ELSE IF n = 111 THEN File("c.PY", 110, Source(SampleFunction, 10))
        ELSE IF n = 112 THEN File("n.md", 110, sub.md)
        ELSE IF n = 113 THEN File("a.py", ROOT, Source(SampleFunction, 10))
        ELSE File("Z.py", ROOT, Source(Module(<<>>), 0))]

\* a project path that does not exist
NoProject == [n \in {ROOT} |-> Missing("proj", ROOT)]

\* nothing is deployed, and every port is free
NoServices ==
    /\ net = {}
    /\ deployment_requests = <<>>
    /\ responses = <<>>
    /\ disk = <<>>
    /\ mock = [deployed_functions |-> <<>>, function_counter |-> 0]

\* a request being served: its number, the route, and for the comparison of
\* its answer with the file system: the file system its scanner was
\* constructed on, whether that changed while it scanned, and whether another
\* request was being served during its time
Request(req, kind, f) ==
    [req |-> req, kind |-> kind, seen |-> f, dirty |-> FALSE, overlapped |-> FALSE]


Init ==
    /\ fs \in {Project(len, pm, sub, a) :
                  len \in ChainLens, pm \in Modes, sub \in SubStates,
                  a \in AContents} \cup {NoProject}
    /\ pc = "idle"
    /\ stack = <<>>
    /\ tree = NoTree
    /\ raised = NoExc
    /\ changes = 0
    /\ cwd = ROOT
    /\ scanner = Scanner(ROOT)
    /\ handles = {}
    /\ threads = <<>>
    /\ current = Request(1, "structure", NoProject)
    /\ NoServices
    /\ log = <<>>

Next == Build \/ Visit \/ Descend \/ ReturnResult \/ Chmod

Spec == Init /\ [][Next]_vars

---------------------------------------------------------------------------
(* The walk on file systems whose directory links form a cycle, or that    *)
(* nest deeper than the limit.                                             *)

Shapes == {"self", "pair", "deep"}

\* a project that holds a.py and, by shape: a link to the project itself;
\* a directory x with a link up to the project;
\* a chain of ChainLen directories d/d/...
Maze(shape, a) ==
    IF shape = "self"
    THEN [n \in 0..2 |->
            IF n = ROOT THEN Dir("proj", ROOT, "rwx")
            ELSE IF n = 1 THEN Link("d", ROOT, ROOT)
            ELSE File("a.py", ROOT, a)]
    ELSE IF shape = "pair"
    THEN [n \in 0..3 |->
            IF n = ROOT THEN Dir("proj", ROOT, "rwx")
            ELSE IF n = 1 THEN Dir("x", ROOT, "rwx")
            ELSE IF n = 2 THEN Link("s", 1, ROOT)
            ELSE File("a.py", 1, a)]
    ELSE [n \in 0..(ChainLen + 1) |->
            IF n = ROOT THEN Dir("proj", ROOT, "rwx")
            ELSE IF n <= ChainLen THEN Dir("d", n - 1, "rwx")
            ELSE File("a.py", ROOT, a)]

WalkInit ==
    /\ fs \in {Maze(shape, a) : shape \in Shapes,
                                 a \in {Source(SampleFunction, 10), InvalidSyntax}}
    /\ pc = "idle"
    /\ stack = <<>>
    /\ tree = NoTree
    /\ raised = NoExc
    /\ changes = 0
    /\ cwd = ROOT
    /\ scanner = Scanner(ROOT)
    /\ handles = {}
    /\ threads = <<>>
    /\ current = Request(1, "structure", NoProject)
    /\ NoServices
    /\ log = <<>>

\* a step of build_directory_structure
Walking == Build \/ Visit \/ Descend \/ ReturnResult

WalkNext == Build \/ Visit \/ Descend \/ ReturnResult \/ Chmod

\* the call runs in a thread that is scheduled as long as it has a step to
\* take; the other process (Chmod) need not act
WalkSpec == WalkInit /\ [][WalkNext]_vars /\ WF_vars(Walking)

---------------------------------------------------------------------------
(* The constructor run in a working directory below other directories.     *)

\* the names an entry of a directory of the tower may have: two project
\* indicators and one other name
EntryNames == <<"poetry.lock", "apps", "docs">>

\* the entry called name, when it is there
Entry(name, parent) ==
    IF name = "poetry.lock" THEN File(name, parent, Source(Module(<<>>), 0))
    ELSE Dir(name, parent, "rwx")

\* what a directory of the tower may hold at first
Listings == {{}, {"docs"}, {"apps"}, {"poetry.lock", "docs"}}

TowerDirs == 0..TowerHeight

\* the id of the entry of directory d with the j-th name
EntryId(d, j) == 100 * (d + 1) + j

\* directories 0 (the top), 1, ..., each inside the one before, directory d
\* holding the entries holds[d]
Tower(holds) ==
    [n \in TowerDirs \cup {EntryId(d, j) : d \in TowerDirs, j \in 1..Len(EntryNames)} |->
        IF n = ROOT THEN Dir("top", ROOT, "rwx")
        ELSE IF n \in TowerDirs THEN Dir("d", n - 1, "rwx")
        ELSE LET d == CHOOSE d \in TowerDirs : \E j \in 1..Len(EntryNames) : n = EntryId(d, j)
                 j == CHOOSE j \in 1..Len(EntryNames) : n = EntryId(d, j)
             IN  IF EntryNames[j] \in holds[d]
                 THEN Entry(EntryNames[j], d)
                 ELSE Missing(EntryNames[j], d)]

\* the arguments the constructor is called with: none, a directory, a path
\* that names nothing
RootArgs == {NoArg} \cup {PathArg(d) : d \in {ROOT, TowerHeight, EntryId(ROOT, 1)}}

RootInit ==
    /\ fs \in {Tower(holds) : holds \in [TowerDirs -> Listings]}
    /\ cwd \in TowerDirs
    /\ pc = "new"
    /\ scanner = NoScanner
    /\ stack = <<>>
    /\ tree = NoTree
    /\ raised = NoExc
    /\ changes = 0
    /\ handles = {}
    /\ threads = <<>>
    /\ current = Request(1, "structure", NoProject)
    /\ NoServices
    /\ log = <<>>

\* scanner = PythonProjectScanner(a): the constructor settles the path, or
\* raises
Construct(a) ==
    /\ pc = "new"
    /\ LET r == PythonProjectScanner(fs, cwd, a)
       IN  IF r.ok
           THEN /\ scanner' = r.value
                /\ pc' = "idle"
                /\ raised' = NoExc
           ELSE /\ scanner' = NoScanner
                /\ pc' = "failed"
                /\ raised' = r.exc
    /\ UNCHANGED <<fs, stack, tree, changes, cwd, services, handles, threads>>

\* a caller constructs a scanner; the call is put on record
Instantiate ==
    \E a \in RootArgs :
        /\ Construct(a)
        /\ UNCHANGED current
        /\ log' = <<[call |-> "init", arg |-> a, cwd |-> cwd, epoch |-> changes,
                     scanner |-> scanner', raised |-> raised']>>

\* the caller drops the scanner
Discard ==
    /\ pc \in {"idle", "failed"}
    /\ pc' = "new"
    /\ scanner' = NoScanner
    /\ raised' = NoExc
    /\ UNCHANGED <<fs, stack, tree, changes, cwd, services, handles, threads, current, log>>

\* another process creates or removes an entry of a directory
Touch ==
    /\ changes < MaxChanges
    /\ \E n \in DOMAIN fs \ TowerDirs :
          fs' = [fs EXCEPT ![n] = IF fs[n].kind = "missing"
                                  THEN Entry(fs[n].name, fs[n].parent)
                                  ELSE Missing(fs[n].name, fs[n].parent)]
    /\ changes' = changes + 1
    /\ UNCHANGED <<pc, stack, tree, raised, cwd, services, scanner, handles, threads, current, log>>

RootNext == Instantiate \/ Discard \/ Touch

RootSpec == RootInit /\ [][RootNext]_vars

---------------------------------------------------------------------------
(* The application: the routes /structure and /info, served by threads.    *)

\* the project the application is started in: a package with two files
\* whose names differ in case only, a file at the root, and the directory
\* (Test) that the start of the application creates when it is not there
Site(pkgMode, a, test) ==
    [n \in {ROOT, 105, 106, 107, 113} \cup (IF test THEN {120, 121} ELSE {}) |->
        IF n = ROOT THEN Dir("proj", ROOT, "rwx")
        ELSE IF n = 105 THEN Dir("pkg", ROOT, pkgMode)
        ELSE IF n = 106 THEN File("a.py", 105, a)
        ELSE IF n = 107 THEN File("A.py", 105, Source(SampleClass, 14))
        ELSE IF n = 113 THEN File("a.py", ROOT, Source(SampleFunction, 10))
        ELSE IF n = 120 THEN Dir("(Test)", ROOT, "rwx")
        ELSE File("sample_function.py", 120, Source(SampleFunction, 10))]

\* the project with a second file in (Test)
Crowded(pkgMode, a) ==
    [n \in DOMAIN Site(pkgMode, a, TRUE) \cup {122} |->
        IF n = 122 THEN File("Z.py", 120, Source(SampleClass, 14))
        ELSE Site(pkgMode, a, TRUE)[n]]

\* test_dir: the node get_structure puts into every tree
test_dir ==
    [folders |-> EmptyDict,
     files |->
        DictSet(EmptyDict, "sample_function.py",
            [file_path |-> <<"(Test)", "sample_function.py">>,
             functions |->
                <<[name |-> "create_product_record",
                   line |-> 1,
                   args |-> <<[name |-> "product_id", type |-> "str"],
                              [name |-> "product_name", type |-> "str"],
                              [name |-> "price", type |-> "int"],
                              [name |-> "is_available", type |-> "bool"]>>,
                   return_type |-> "str",
                   decorators |-> <<"@supply_chain.record">>,
                   docstring |-> "Creates a new product record on the blockchain.",
                   is_async |-> FALSE]>>,
             classes |-> <<>>,
             constants |-> <<>>,
             imports |-> <<>>,
             total_functions |-> 1,
             total_classes |-> 0,
             total_constants |-> 0,
             lines |-> 10])]

\* get_structure putting test_dir in the place of the node of (Test)
get_structure_Replaces(data) ==
    [data EXCEPT !.folders = DictSet(data.folders, "(Test)", test_dir)]

\* get_structure once the tree is built: the files of test_dir are put into
\* the node of (Test) when the tree has one, test_dir is that node otherwise
get_structure(data) ==
    LET folders == data.folders
        found == Get(folders, "(Test)")
        merged == [found EXCEPT !.files =
                      DictSet(found.files, "sample_function.py",
                              Get(test_dir.files, "sample_function.py"))]
    IN  IF HasKey(folders, "(Test)")
        THEN [data EXCEPT !.folders = DictSet(folders, "(Test)", merged)]
        ELSE [data EXCEPT !.folders = DictSet(folders, "(Test)", test_dir)]

RECURSIVE SumOf(_)
SumOf(numbers) == IF numbers = <<>> THEN 0 ELSE Head(numbers) + SumOf(Tail(numbers))

\* count_recursive: the files of a tree, and the functions and classes
\* their analyses count
RECURSIVE count_recursive(_)
count_recursive(data) ==
    LET below == [i \in 1..Len(data.folders) |-> count_recursive(data.folders[i].value)]
    IN  [total_files |-> Len(data.files)
                         + SumOf([i \in 1..Len(below) |-> below[i].total_files]),
         total_functions |-> SumOf([i \in 1..Len(data.files) |->
                                       data.files[i].value.total_functions])
                             + SumOf([i \in 1..Len(below) |-> below[i].total_functions]),
         total_classes |-> SumOf([i \in 1..Len(data.files) |->
                                     data.files[i].value.total_classes])
                           + SumOf([i \in 1..Len(below) |-> below[i].total_classes])]

\* project_info once the tree is built
project_info(scanner_, structure) ==
    LET totals == count_recursive(structure)
    IN  [project_path |-> scanner_.project_path,
         total_files |-> totals.total_files,
         total_functions |-> totals.total_functions,
         total_classes |-> totals.total_classes]

\* except Exception as e: return jsonify({'error': str(e)})
handler_except(e) ==
    IF IsInstance(e, "Exception") THEN Returned([error |-> e.msg]) ELSE Raised(e)

Routes == {"structure", "info"}

\* what the handler of route kind returns, or lets through, once the
\* constructor and build_directory_structure have returned or raised
Response(kind, scanner_, tree_, raised_) ==
    IF raised_ # NoExc THEN handler_except(raised_)
    ELSE IF kind = "structure" THEN Returned(get_structure(tree_))
    ELSE Returned(project_info(scanner_, tree_))

\* the locals of a handler that keeps the tree of the request before
NewLocals_KeepsTree ==
    IF log = <<>>
    THEN [pc |-> "new", stack |-> <<>>, tree |-> NoTree, raised |-> NoExc,
          scanner |-> NoScanner]
    ELSE [pc |-> "done", stack |-> <<>>, tree |-> log[Len(log)].tree,
          raised |-> log[Len(log)].raised, scanner |-> log[Len(log)].scanner]

\* the locals of a handler when its request arrives: no scanner, no tree
NewLocals ==
    [pc |-> "new", stack |-> <<>>, tree |-> NoTree, raised |-> NoExc,
     scanner |-> NoScanner]

\* the locals of the thread that is running
Locals ==
    [pc |-> pc, stack |-> stack, tree |-> tree, raised |-> raised, scanner |-> scanner]

\* threads that keep the last tree built in one place for all of them
Resume_SharedTree(own) == IF tree # NoTree THEN [own EXCEPT !.tree = tree] ELSE own

\* what a thread finds in its locals when it runs again: what it left there
Resume(own) == own

\* the requests sent so far
Issued == Len(log) + Len(threads) + (IF pc = "ended" THEN 0 ELSE 1)

ServeInit ==
    /\ log = <<>>
    /\ fs \in {Site("rwx", Source(SampleNested, 20), FALSE),
               Crowded("rwx", Source(SampleNested, 20))}
    /\ cwd = ROOT
    /\ pc = NewLocals.pc
    /\ stack = NewLocals.stack
    /\ tree = NewLocals.tree
    /\ raised = NewLocals.raised
    /\ scanner = NewLocals.scanner
    /\ changes = 0
    /\ handles = {}
    /\ threads = <<>>
    /\ \E kind \in Routes : current = Request(1, kind, fs)
    /\ NoServices

\* a request arrives and waits for its thread to run
Accept ==
    /\ Issued < MaxRequests
    /\ \E kind \in Routes :
          LET live == pc # "ended" \/ threads # <<>>
              new == [Request(Issued + 1, kind, fs) EXCEPT !.overlapped = live]
          IN  /\ threads' = Append([i \in 1..Len(threads) |->
                                       [threads[i] EXCEPT !.request.overlapped = TRUE]],
                                   [locals |-> NewLocals, request |-> new])
              /\ current' = [current EXCEPT !.overlapped = @ \/ pc # "ended"]
    /\ UNCHANGED <<fs, pc, stack, tree, raised, changes, cwd, services, scanner, handles, log>>

\* scanner = PythonProjectScanner(), the first statement of both handlers
Create ==
    /\ Construct(NoArg)
    /\ current' = [current EXCEPT !.seen = fs]
    /\ UNCHANGED log

\* the handler returns its response and its locals are gone
Respond ==
    /\ pc \in {"done", "failed"}
    /\ log' = Append(log, [request |-> current, tree |-> tree, raised |-> raised,
                           scanner |-> scanner,
                           response |-> Response(current.kind, scanner, tree, raised)])
    /\ pc' = "ended"
    /\ stack' = <<>>
    /\ tree' = NoTree
    /\ raised' = NoExc
    /\ scanner' = NoScanner
    /\ UNCHANGED <<fs, changes, cwd, services, handles, threads, current>>

\* the running thread is put aside, unless it has ended, and another runs
Switch ==
    /\ \E i \in 1..Len(threads) :
          LET next == Resume(threads[i].locals)
              others == SubSeq(threads, 1, i - 1) \o SubSeq(threads, i + 1, Len(threads))
          IN  /\ pc' = next.pc
              /\ stack' = next.stack
              /\ tree' = next.tree
              /\ raised' = next.raised
              /\ scanner' = next.scanner
              /\ current' = threads[i].request
              /\ threads' = IF pc = "ended" THEN others
                            ELSE Append(others, [locals |-> Locals, request |-> current])
    /\ UNCHANGED <<fs, changes, cwd, services, handles, log>>

\* another process changes the mode of a directory; a request whose scanner
\* is constructed and whose tree is not yet built has seen both states
Interfere ==
    /\ changes < MaxChanges
    /\ \E d \in ChmodTargets, m \in Modes :
          /\ fs[d].kind = "dir"
          /\ fs[d].mode # m
          /\ fs' = [fs EXCEPT ![d].mode = m]
    /\ changes' = changes + 1
    /\ current' = [current EXCEPT !.dirty = @ \/ pc \in {"idle", "scanning"}]
    /\ threads' = [i \in 1..Len(threads) |->
                      [threads[i] EXCEPT !.request.dirty =
                          @ \/ threads[i].locals.pc \in {"idle", "scanning"}]]
    /\ UNCHANGED <<pc, stack, tree, raised, cwd, services, scanner, handles, log>>

ServeNext ==
    \/ Accept \/ Create \/ Build \/ Visit \/ Descend \/ ReturnResult
    \/ Respond \/ Switch \/ Interfere

ServeSpec == ServeInit /\ [][ServeNext]_vars

---------------------------------------------------------------------------
(* What a request gets when nothing else runs: the handler in one piece.   *)

\* the order in which a listing comes when the scan runs alone
AnyOrder(f, d) == CHOOSE o \in Orders(f, d) : TRUE

\* process_directory(d, max_depth, depth) from call to return, and the loop
\* of an activation from where it stands to the return
RECURSIVE TreeOf(_, _, _)
RECURSIVE RunLoop(_, _)
RunLoop(f, frame) ==
    IF frame.at = "return" \/ frame.items = <<>> THEN Returned(frame.result)
    ELSE IF IsDescent(f, frame)
    THEN LET item == Head(frame.items)
             sub == TreeOf(f, item, frame.depth + 1)
         IN  IF sub.ok
             THEN RunLoop(f, [frame EXCEPT
                                 !.result.folders =
                                     DictSet(frame.result.folders, f[item].name, sub.value),
                                 !.items = Tail(frame.items)])
             ELSE sub
    ELSE LET r == loop_body(f, frame, Head(frame.items))
         IN  IF r.ok THEN RunLoop(f, r.value) ELSE r

TreeOf(f, d, depth) ==
    LET r == process_directory(f, d, depth, AnyOrder(f, d))
    IN  IF r.ok THEN RunLoop(f, r.value) ELSE r

\* the tree a handler served alone on file system f builds, or the
\* exception its first two statements raise
Built(f) ==
    LET s == PythonProjectScanner(f, cwd, NoArg)
    IN  IF ~s.ok THEN s ELSE TreeOf(f, s.value.project_path, 0)

\* the response to a request for route kind served alone on file system f
Alone(f, kind) ==
    LET s == PythonProjectScanner(f, cwd, NoArg)
        t == Built(f)
    IN  IF ~s.ok THEN Response(kind, NoScanner, NoTree, s.exc)
        ELSE IF ~t.ok THEN Response(kind, s.value, NoTree, t.exc)
        ELSE Response(kind, s.value, t.value, NoExc)

\* two DirectoryNodes are equal as Python compares dicts: the same keys with
\* equal values, in whatever order they were inserted
RECURSIVE SameNode(_, _)
SameNode(a, b) ==
    /\ DOMAIN a = DOMAIN b
    /\ "error" \in DOMAIN a => a.error = b.error
    /\ Keys(a.files) = Keys(b.files)
    /\ \A k \in Keys(a.files) : Get(a.files, k) = Get(b.files, k)
    /\ Keys(a.folders) = Keys(b.folders)
    /\ \A k \in Keys(a.folders) : SameNode(Get(a.folders, k), Get(b.folders, k))

SameResponse(x, y) ==
    /\ x.ok = y.ok
    /\ IF ~x.ok THEN x.exc = y.exc
       ELSE /\ DOMAIN x.value = DOMAIN y.value
            /\ IF "folders" \in DOMAIN x.value THEN SameNode(x.value, y.value)
               ELSE x.value = y.value

---------------------------------------------------------------------------
(* basic_encrypt and basic_decrypt. A text is the sequence of the code     *)
(* points of its characters.                                               *)

\* the key of both functions
key == 42

\* the largest code point chr accepts
MaxCodePoint == 1114111

\* a ^ b on non-negative integers
RECURSIVE Xor(_, _)
Xor(a, b) ==
    IF a = 0 /\ b = 0 THEN 0
    ELSE (((a % 2) + (b % 2)) % 2) + (2 * Xor(a \div 2, b \div 2))

chr(i) ==
    IF i \in 0..MaxCodePoint THEN Returned(i)
    ELSE Raised(Exc("ValueError", "chr() arg not in range(0x110000)"))

\* ''.join(gen): the characters drawn from the generator, or the first
\* exception drawing one raises
Join(chars) ==
    IF \E i \in 1..Len(chars) : ~chars[i].ok
    THEN chars[CHOOSE i \in 1..Len(chars) :
                  ~chars[i].ok /\ \A j \in 1..(i - 1) : chars[j].ok]
    ELSE Returned([i \in 1..Len(chars) |-> chars[i].value])

\* basic_encrypt shifting each character by the key
basic_encrypt_Adds(data) == Join([i \in 1..Len(data) |-> chr(data[i] + key)])

basic_encrypt(data) == Join([i \in 1..Len(data) |-> chr(Xor(data[i], key))])

basic_decrypt(data) == Join([i \in 1..Len(data) |-> chr(Xor(data[i], key))])

\* the characters tried: NUL, the key itself, a letter, a surrogate, and
\* the last code points
CodePoints == {0, 42, 65, 55296, 1114069, 1114111}

\* the longest text tried, and the most calls made on one text
MaxText == 2

MaxCalls == 3

Texts == UNION {[1..n -> CodePoints] : n \in 0..MaxText}

CipherInit ==
    /\ log \in {<<[call |-> "input", data |-> s, result |-> Returned(s)]>> : s \in Texts}
    /\ pc = "cipher"
    /\ fs = NoProject
    /\ stack = <<>>
    /\ tree = NoTree
    /\ raised = NoExc
    /\ changes = 0
    /\ cwd = ROOT
    /\ scanner = NoScanner
    /\ handles = {}
    /\ threads = <<>>
    /\ current = Request(1, "structure", NoProject)
    /\ NoServices

\* a function is called on what the call before it returned
Called(name, result) ==
    /\ log' = Append(log, [call |-> name, data |-> log[Len(log)].result.value,
                           result |-> result])
    /\ IF result.ok THEN UNCHANGED <<pc, raised>>
       ELSE pc' = "exited" /\ raised' = result.exc
    /\ UNCHANGED <<fs, stack, tree, changes, cwd, scanner, handles, threads, current,
                   services>>

Encrypt ==
    /\ pc = "cipher"
    /\ Len(log) <= MaxCalls
    /\ Called("basic_encrypt", basic_encrypt(log[Len(log)].result.value))

Decrypt ==
    /\ pc = "cipher"
    /\ Len(log) <= MaxCalls
    /\ Called("basic_decrypt", basic_decrypt(log[Len(log)].result.value))

CipherNext == Encrypt \/ Decrypt

CipherSpec == CipherInit /\ [][CipherNext]_vars

---------------------------------------------------------------------------
(* POST /deploy: the contract generated for a request, the arguments of    *)
(* the forge command, and the handler.                                     *)

\* a value of the payload: a JSON string, or a JSON number
Str(s) == [py |-> "str", s |-> s]

Num(s) == [py |-> "int", s |-> s]

\* an included parameter as the page sends it
Param(name, type, value) == [name |-> name, type |-> type, value |-> value]

python_to_solidity_type(py_type) ==
    IF py_type \in {"int", "int64", "int32"} THEN "int256"
    ELSE IF py_type \in {"str", "string"} THEN "string"
    ELSE IF py_type = "bool" THEN "bool"
    ELSE IF py_type \in {"float", "float64"} THEN "string"
    ELSE "string"

IsDigit(c) == c >= 48 /\ c <= 57

\* a character that re.sub(r'[^a-zA-Z0-9_]', '', ...) keeps
IsWord(c) == IsUpperChar(c) \/ IsLowerChar(c) \/ IsDigit(c) \/ c = 95

\* str.capitalize()
capitalize(s) == IF s = <<>> THEN <<>> ELSE <<UpperChar(Head(s))>> \o Lower(Tail(s))

\* the name of the state variable and of the constructor parameter of an
\* included parameter
StateVar(sol_type, name) == [type |-> sol_type, public |-> name]

ConstructorParam(sol_type, name) ==
    [type |-> sol_type, memory |-> sol_type = "string", underscore |-> name]

Assignment(name) == [target |-> name, underscore |-> name]

\* the constructor that also takes the return value
generate_solidity_contract_WithReturn(req) ==
    LET params == req.included_params
    IN  IF req.functionName = None
        THEN Raised(Exc("TypeError", "expected string or bytes-like object, got 'NoneType'"))
        ELSE Returned(
            [contract_name |-> capitalize(SelectSeq(Ord[req.functionName], IsWord))
                                  \o Ord["Record"],
             state_vars |->
                 [i \in 1..Len(params) |->
                     StateVar(python_to_solidity_type(params[i].type),
                              IF params[i].name = "return" THEN "returnValue"
                              ELSE params[i].name)],
             constructor_params |->
                 [i \in 1..Len(params) |->
                     ConstructorParam(python_to_solidity_type(params[i].type),
                                      params[i].name)],
             constructor_logic |->
                 [i \in 1..Len(params) |-> Assignment(params[i].name)]])

\* generate_solidity_contract(req): the contract, as its name, its state
\* variables, the parameters of its constructor and the assignments of its
\* constructor, or the exception re.sub raises for a missing functionName
generate_solidity_contract(req) ==
    LET params == req.included_params
        NotReturn(param) == param.name # "return"
        taken == SelectSeq(params, NotReturn)
    IN  IF req.functionName = None
        THEN Raised(Exc("TypeError", "expected string or bytes-like object, got 'NoneType'"))
        ELSE Returned(
            [contract_name |-> capitalize(SelectSeq(Ord[req.functionName], IsWord))
                                  \o Ord["Record"],
             state_vars |->
                 [i \in 1..Len(params) |->
                     StateVar(python_to_solidity_type(params[i].type),
                              IF params[i].name = "return" THEN "returnValue"
                              ELSE params[i].name)],
             constructor_params |->
                 [i \in 1..Len(taken) |->
                     ConstructorParam(python_to_solidity_type(taken[i].type),
                                      taken[i].name)],
             constructor_logic |->
                 [i \in 1..Len(taken) |-> Assignment(taken[i].name)]])

\* re.match(r'^-?\d+$', arg): an optional sign and digits; $ also matches
\* before a newline that ends the text
MatchesInteger(s) ==
    LET t == IF s # <<>> /\ s[Len(s)] = 10 THEN SubSeq(s, 1, Len(s) - 1) ELSE s
        u == IF t # <<>> /\ Head(t) = 45 THEN Tail(t) ELSE t
    IN  u # <<>> /\ \A i \in 1..Len(u) : IsDigit(u[i])

\* f"'{text}'"
Quoted(text) == <<39>> \o text \o <<39>>

\* the text one constructor argument contributes to final_args
FormatArg(arg_, encrypt_flag) ==
    IF arg_.py = "str"
    THEN IF MatchesInteger(Ord[arg_.s]) THEN Ord[arg_.s]
         ELSE IF Lower(Ord[arg_.s]) \in {Ord["true"], Ord["false"]} THEN Lower(Ord[arg_.s])
         ELSE IF encrypt_flag THEN Quoted(basic_encrypt(Ord[arg_.s]).value)
         ELSE Quoted(Ord[arg_.s])
    ELSE Ord[arg_.s]

\* the loop of generate_and_run_forge_script over constructor_args: the
\* texts joined into the --constructor-args of the forge command
RECURSIVE final_args(_, _)
final_args(constructor_args, encrypt_flag) ==
    IF constructor_args = <<>> THEN <<>>
    ELSE LET arg_ == Head(constructor_args)
             rest == final_args(Tail(constructor_args), encrypt_flag)
         IN  IF arg_ = Str("N/A") THEN rest
             ELSE <<FormatArg(arg_, encrypt_flag)>> \o rest

\* the loop of deploy over included_params_raw: constructor_args, or the
\* KeyError of a parameter without 'value'
constructor_args(included_params_raw) ==
    LET NotReturn(param) == param.name # "return"
        taken == SelectSeq(included_params_raw, NotReturn)
    IN  IF \E i \in 1..Len(taken) : "value" \notin DOMAIN taken[i]
        THEN Raised(Exc("KeyError", "'value'"))
        ELSE Returned([i \in 1..Len(taken) |-> taken[i].value])

\* what subprocess.run(['./deploy.sh'], check=True, ...) may do: the script
\* exits with 0, it exits with 1 (no .env, or forge failed), or it cannot
\* be started
Outcomes == {"exit 0", "exit 1", "not started"}

\* generate_and_run_forge_script after the files are written: what it
\* returns, or the exception it lets through
run_forge_script(outcome) ==
    IF outcome = "exit 0" THEN Returned([text |-> "stdout", exit |-> 0])
    ELSE IF outcome = "exit 1"
    THEN Returned([text |-> "Error: Forge deployment script failed.", exit |-> 1])
    ELSE Raised(Exc("OSError", "[Errno 26] Text file busy: './deploy.sh'"))

\* the entry deploy appends to responses
Result(req, sol_code, deployment_output) ==
    [status |-> "success",
     message |-> [text |-> "Deployment prepared.", of |-> req.functionName],
     solidity_contract |-> sol_code,
     deployment_output |-> deployment_output,
     encrypted_data_sent |-> req.encrypt,
     included_params |-> req.included_params,
     encrypt_return |-> FALSE]

\* the requests tried. The first is what the page sends for the sample
\* function, the second the same with encryption; in the third the user
\* entered N/A for a parameter; the fourth lacks a value; the fifth lacks
\* the function name; the sixth has no parameters
SampleParams ==
    <<Param("product_id", "str", Str("milk")), Param("price", "int", Str("7")),
      Param("is_available", "bool", Str("True")), Param("return", "str", Str("N/A"))>>

Requests ==
    {[functionName |-> "create_product_record", included_params |-> SampleParams,
      encrypt |-> FALSE],
     [functionName |-> "create_product_record", included_params |-> SampleParams,
      encrypt |-> TRUE],
     [functionName |-> "get-ID",
      included_params |-> <<Param("return", "int", Str("N/A")),
                            Param("note", "float", Str("N/A")),
                            Param("count", "int64", Num("5"))>>,
      encrypt |-> FALSE],
     [functionName |-> "create_product_record",
      included_params |-> <<Param("price", "int", Str("-3")),
                            [name |-> "note", type |-> "str"]>>,
      encrypt |-> FALSE],
     [functionName |-> None, included_params |-> <<>>, encrypt |-> FALSE],
     [functionName |-> "get-ID", included_params |-> <<>>, encrypt |-> TRUE]}

\* the most requests in one payload
MaxPayload == 2

Payloads == UNION {[1..n -> Requests] : n \in 0..MaxPayload}

DeployInit ==
    /\ deployment_requests \in Payloads
    /\ responses = <<>>
    /\ disk = <<>>
    /\ pc = "loop"
    /\ log = <<>>
    /\ fs = NoProject
    /\ stack = <<>>
    /\ tree = NoTree
    /\ raised = NoExc
    /\ changes = 0
    /\ cwd = ROOT
    /\ scanner = NoScanner
    /\ handles = {}
    /\ threads = <<>>
    /\ current = Request(1, "deploy", NoProject)
    /\ net = {}
    /\ mock = [deployed_functions |-> <<>>, function_counter |-> 0]

\* the handler answering with the results so far next to the error
Fail_PartialResults(e) ==
    /\ log' = Append(log, [call |-> "respond",
                           body |-> [error |-> e.msg, results |-> responses]])
    /\ raised' = e
    /\ pc' = "answered"
    /\ stack' = <<>>
    /\ responses' = <<>>

\* except Exception as e: return jsonify({'error': str(e)}): the locals of
\* the handler are gone
Fail(e) ==
    /\ log' = Append(log, [call |-> "respond", body |-> handler_except(e).value])
    /\ raised' = e
    /\ pc' = "answered"
    /\ stack' = <<>>
    /\ responses' = <<>>

\* one pass of the loop of deploy up to the start of the script: the
\* arguments are gathered, the contract is generated, and both files are
\* written
Generate ==
    /\ pc = "loop"
    /\ Len(responses) < Len(deployment_requests)
    /\ LET req == deployment_requests[Len(responses) + 1]
           args == constructor_args(req.included_params)
           made == generate_solidity_contract(req)
       IN  IF ~args.ok THEN Fail(args.exc) /\ UNCHANGED disk
           ELSE IF ~made.ok THEN Fail(made.exc) /\ UNCHANGED disk
           ELSE /\ stack' = <<[req |-> req, sol_code |-> made.value,
                               final_args |-> final_args(args.value, req.encrypt)]>>
                /\ disk' = disk \o <<[path |-> <<"src", made.value.contract_name>>,
                                      content |-> made.value],
                                     [path |-> <<"deploy.sh">>,
                                      content |-> stack'[1].final_args]>>
                /\ pc' = "run"
                /\ UNCHANGED <<raised, responses, log>>
    /\ UNCHANGED <<fs, tree, changes, cwd, scanner, handles, threads, current, net,
                   deployment_requests, mock>>

\* the script runs, and deploy appends the result of the request
RunScript ==
    /\ pc = "run"
    /\ \E outcome \in Outcomes :
          LET out == run_forge_script(outcome)
          IN  IF out.ok
              THEN /\ log' = Append(log, [call |-> "deploy.sh", outcome |-> outcome,
                                          req |-> Len(responses) + 1,
                                          sol_code |-> Top.sol_code,
                                          final_args |-> Top.final_args])
                   /\ responses' = Append(responses, Result(Top.req, Top.sol_code, out.value))
                   /\ pc' = "loop"
                   /\ stack' = <<>>
                   /\ UNCHANGED raised
              ELSE Fail(out.exc)
    /\ UNCHANGED <<fs, tree, changes, cwd, scanner, handles, threads, current, net,
                   deployment_requests, disk, mock>>

\* the loop is over: deploy returns the results
Answer ==
    /\ pc = "loop"
    /\ Len(responses) = Len(deployment_requests)
    /\ log' = Append(log, [call |-> "respond",
                           body |-> [status |-> "success",
                                     message |-> "Deployment process initiated for selected functions.",
                                     results |-> responses]])
    /\ pc' = "answered"
    /\ UNCHANGED <<fs, stack, tree, raised, changes, cwd, scanner, handles, threads, current,
                   services>>

DeployNext == Generate \/ RunScript \/ Answer

DeploySpec == DeployInit /\ [][DeployNext]_vars

---------------------------------------------------------------------------
(* substrate_deployment.py: MockSubstrateDeployment and the reading of a   *)
(* transaction receipt.                                                    *)

\* a dict argument, and an argument that is no dict (None)
DictArg(items) == [py |-> "dict", items |-> items]

NoDict == [py |-> "NoneType"]

\* function_data.get(k, default)
GetOr(function_data, k, default) ==
    IF function_data.py # "dict"
    THEN Raised(Exc("AttributeError", "'NoneType' object has no attribute 'get'"))
    ELSE IF k \in DOMAIN function_data.items THEN Returned(function_data.items[k])
    ELSE Returned(default)

\* MockSubstrateDeployment.deploy_function(contract_instance, function_data):
\* the object afterwards, and what the call returned or raised
deploy_function(self, function_data) ==
    LET counted == [self EXCEPT !.function_counter = @ + 1]
        name == GetOr(function_data, "functionName", "unknown")
        file == GetOr(function_data, "file", "")
        className == GetOr(function_data, "className", None)
        deployed_function ==
            [function_id |-> counted.function_counter,
             name |-> name.value,
             file |-> file.value,
             className |-> className.value,
             transaction_hash |-> [md5 |-> counted.function_counter]]
    IN  IF ~name.ok THEN [self |-> counted, result |-> name]
        ELSE [self |-> [counted EXCEPT !.deployed_functions = Append(@, deployed_function)],
              result |-> Returned([success |-> TRUE,
                                   function_id |-> counted.function_counter,
                                   transaction_hash |-> deployed_function.transaction_hash,
                                   name |-> deployed_function.name])]

\* MockSubstrateDeployment.list_deployed_functions()
list_deployed_functions(self) ==
    [self |-> self,
     result |-> Returned(
        [success |-> TRUE,
         functions |-> [i \in 1..Len(self.deployed_functions) |->
                           <<self.deployed_functions[i].function_id,
                             self.deployed_functions[i].name,
                             self.deployed_functions[i].className>>]])]

\* the arguments tried: a method, a function without class and file, an
\* empty dict, and None
FunctionData ==
    {DictArg([functionName |-> "add", file |-> "a.py", className |-> "Ledger"]),
     DictArg([functionName |-> "outer"]),
     DictArg([file |-> "a.py"]),
     NoDict}

\* the most calls made on one object
MaxDeploys == 3

MockInit ==
    /\ mock = [deployed_functions |-> <<>>, function_counter |-> 0]
    /\ log = <<>>
    /\ pc = "mock"
    /\ fs = NoProject
    /\ stack = <<>>
    /\ tree = NoTree
    /\ raised = NoExc
    /\ changes = 0
    /\ cwd = ROOT
    /\ scanner = NoScanner
    /\ handles = {}
    /\ threads = <<>>
    /\ current = Request(1, "structure", NoProject)
    /\ net = {}
    /\ deployment_requests = <<>>
    /\ responses = <<>>
    /\ disk = <<>>

\* a method of the object was called: the call is put on record
MockCalled(name, arg_, done) ==
    /\ mock' = done.self
    /\ log' = Append(log, [call |-> name, arg |-> arg_, before |-> mock,
                           after |-> done.self, result |-> done.result])
    /\ UNCHANGED <<fs, pc, stack, tree, raised, changes, cwd, scanner, handles, threads,
                   current, net, deployment_requests, responses, disk>>

DeployFunction ==
    /\ Len(log) < MaxDeploys
    /\ \E function_data \in FunctionData :
          MockCalled("deploy_function", function_data, deploy_function(mock, function_data))

ListDeployed ==
    /\ Len(log) < MaxDeploys
    /\ MockCalled("list_deployed_functions", NoDict, list_deployed_functions(mock))

MockNext == DeployFunction \/ ListDeployed

MockSpec == MockInit /\ [][MockNext]_vars

\* an event of a receipt: one of the pallet, and one whose value cannot be
\* read as the function expects
Event(event_id, attributes) ==
    [readable |-> TRUE, event_id |-> event_id, attributes |-> attributes]

Unread == [readable |-> FALSE]

\* the receipt whose events cannot be read at all
NoReceipt == [py |-> "NoneType"]

Receipt(events) == [py |-> "receipt", triggered_events |-> events]

\* the fallback of extract_function_id_from_receipt
Fallback == 1

\* the loop ended without a return statement
Unreturned == [returned |-> FALSE]

\* the loop that passes over an event it cannot read
RECURSIVE ReadEvents_SkipsUnread(_)
ReadEvents_SkipsUnread(events) ==
    IF events = <<>> THEN Returned(Unreturned)
    ELSE LET event == Head(events)
         IN  IF ~event.readable THEN ReadEvents_SkipsUnread(Tail(events))
             ELSE IF event.event_id = "FunctionDeployed"
             THEN IF "function_id" \in DOMAIN event.attributes
                  THEN Returned([returned |-> TRUE, value |-> event.attributes.function_id])
                  ELSE Raised(Exc("KeyError", "'function_id'"))
             ELSE ReadEvents_SkipsUnread(Tail(events))

\* the loop of extract_function_id_from_receipt inside its try: the value
\* returned, or the exception an event raises
RECURSIVE ReadEvents(_)
ReadEvents(events) ==
    IF events = <<>> THEN Returned(Unreturned)
    ELSE LET event == Head(events)
         IN  IF ~event.readable THEN Raised(Exc("KeyError", "'event'"))
             ELSE IF event.event_id = "FunctionDeployed"
             THEN IF "function_id" \in DOMAIN event.attributes
                  THEN Returned([returned |-> TRUE, value |-> event.attributes.function_id])
                  ELSE Raised(Exc("KeyError", "'function_id'"))
             ELSE ReadEvents(Tail(events))

\* the try block of extract_function_id_from_receipt: the value the loop
\* returns, or the exception reading the receipt raises
try_events(receipt) ==
    IF receipt.py # "receipt"
    THEN Raised(Exc("AttributeError", "'NoneType' object has no attribute 'triggered_events'"))
    ELSE ReadEvents(receipt.triggered_events)

\* extract_function_id_from_receipt(receipt): a bare except passes over
\* every exception, and the fallback is returned unless the loop returned
extract_function_id_from_receipt(receipt) ==
    LET tried == try_events(receipt)
    IN  IF tried.ok /\ tried.value.returned THEN Returned(tried.value.value)
        ELSE Returned(Fallback)

Events ==
    {Event("FunctionDeployed", [function_id |-> 7]),
     Event("FunctionDeployed", [function_id |-> 9]),
     Event("FunctionDeployed", [caller |-> 7]),
     Event("ExtrinsicSuccess", [weight |-> 7]),
     Unread}

\* the most events in one receipt
MaxEvents == 3

Receipts == {Receipt(events) : events \in UNION {[1..n -> Events] : n \in 0..MaxEvents}}
               \cup {NoReceipt}

ReceiptInit ==
    /\ log \in {<<[call |-> "receipt", receipt |-> r]>> : r \in Receipts}
    /\ pc = "receipt"
    /\ fs = NoProject
    /\ stack = <<>>
    /\ tree = NoTree
    /\ raised = NoExc
    /\ changes = 0
    /\ cwd = ROOT
    /\ scanner = NoScanner
    /\ handles = {}
    /\ threads = <<>>
    /\ current = Request(1, "structure", NoProject)
    /\ NoServices

\* function_id = self.extract_function_id_from_receipt(receipt)
Extract ==
    /\ pc = "receipt"
    /\ LET got == extract_function_id_from_receipt(log[1].receipt)
       IN  /\ log' = Append(log, [call |-> "extract_function_id_from_receipt",
                                  receipt |-> log[1].receipt, result |-> got])
           /\ IF got.ok THEN pc' = "extracted" /\ raised' = NoExc
              ELSE pc' = "exited" /\ raised' = got.exc
    /\ UNCHANGED <<fs, stack, tree, changes, cwd, scanner, handles, threads, current,
                   services>>

ReceiptNext == Extract

ReceiptSpec == ReceiptInit /\ [][ReceiptNext]_vars

---------------------------------------------------------------------------
(* Startup: find_free_port and the main block.                             *)

\* range(start_port, start_port + 100) has this many ports
PortSpan == 100

\* find_free_port(8003)
DefaultPort == 8003

\* the highest port number a socket address takes
LastPort == 65535

\* s.bind(('localhost', port)): a number that is no port is an
\* OverflowError, a port that cannot be bound an OSError
bind(busy, port) ==
    IF port < 0 \/ port > LastPort
    THEN Raised(Exc("OverflowError", "bind(): port must be 0-65535."))
    ELSE IF port \in busy
    THEN Raised(Exc("OSError", "[Errno 98] Address already in use"))
    ELSE Returned(port)

\* find_free_port that, past the last port, does not raise: it answers
\* with its first port
find_free_port_FallsBack(busy, start_port, port) ==
    LET b == bind(busy, port)
    IN  IF port >= start_port + PortSpan
        THEN [at |-> "return", outcome |-> Returned(start_port)]
        ELSE IF b.ok THEN [at |-> "return", outcome |-> b]
        ELSE IF IsInstance(b.exc, "OSError") THEN [at |-> "loop", port |-> port + 1]
        ELSE [at |-> "return", outcome |-> b]

\* one pass of the loop of find_free_port, or its end: the port that binds
\* is returned, an OSError moves on to the next port, another exception is
\* let through, and past the last port the function raises
find_free_port(busy, start_port, port) ==
    LET b == bind(busy, port)
    IN  IF port >= start_port + PortSpan
        THEN [at |-> "return", outcome |-> Raised(Exc("OSError", "No free ports found"))]
        ELSE IF b.ok THEN [at |-> "return", outcome |-> b]
        ELSE IF IsInstance(b.exc, "OSError") THEN [at |-> "loop", port |-> port + 1]
        ELSE [at |-> "return", outcome |-> b]

\* the ports start, start + 1, ..., count of them
Span(start, count) == start..(start + count - 1)

\* the starts tried: the one of the main block, and one whose range ends
\* beyond the last port
Starts == {DefaultPort, LastPort - 1}

\* how many ports of the range are taken when the main block begins
Taken == {0, 1, 2, PortSpan - 1, PortSpan}

\* the main block begins: the first ports of the range are taken, or all
\* of these but one
BootInit ==
    /\ \E start \in Starts :
          /\ \E count \in Taken, gap \in 0..1 :
                net = Span(start, count) \ (IF gap = 1 THEN {start + count - 2} ELSE {})
          /\ log = <<[call |-> "main", start |-> start]>>
    /\ fs \in {Site("rwx", Source(Module(<<>>), 0), test) : test \in BOOLEAN}
    /\ cwd = ROOT
    /\ pc = "boot"
    /\ stack = <<>>
    /\ tree = NoTree
    /\ raised = NoExc
    /\ changes = 0
    /\ scanner = NoScanner
    /\ handles = {}
    /\ threads = <<>>
    /\ current = Request(1, "structure", NoProject)
    /\ deployment_requests = <<>>
    /\ responses = <<>>
    /\ disk = <<>>
    /\ mock = [deployed_functions |-> <<>>, function_counter |-> 0]

\* port = find_free_port(8003), the first statement of the main block, is
\* called
FindPort ==
    /\ pc = "boot"
    /\ pc' = "probing"
    /\ stack' = <<[start_port |-> log[1].start, port |-> log[1].start]>>
    /\ UNCHANGED <<fs, tree, raised, changes, cwd, scanner, handles, threads, current,
                   log, services>>

\* find_free_port tries a port, or returns, or raises, which ends the process
Probe ==
    /\ pc = "probing"
    /\ LET r == find_free_port(net, Top.start_port, Top.port)
       IN  IF r.at = "loop"
           THEN /\ stack' = <<[Top EXCEPT !.port = r.port]>>
                /\ UNCHANGED <<pc, raised, log>>
           ELSE /\ stack' = <<>>
                /\ log' = Append(log, [call |-> "find_free_port",
                                       start |-> Top.start_port,
                                       net |-> net, result |-> r.outcome])
                /\ IF r.outcome.ok THEN pc' = "found" /\ raised' = NoExc
                   ELSE pc' = "exited" /\ raised' = r.outcome.exc
    /\ UNCHANGED <<fs, tree, changes, cwd, scanner, handles, threads, current, services>>

\* the main block creates the directory (Test) and its sample file when
\* they are not there
CreateSample ==
    /\ pc = "found"
    /\ pc' = "ready"
    /\ fs' = IF exists(fs, cwd, "(Test)").value THEN fs
             ELSE Site("rwx", Source(Module(<<>>), 0), TRUE)
    /\ UNCHANGED <<stack, tree, raised, changes, cwd, scanner, handles, threads, current,
                   log, services>>

\* app.run(debug=True, port=port, host='0.0.0.0'): the server binds the
\* port and serves, or ends the process when the port cannot be bound
Run ==
    /\ pc = "ready"
    /\ LET port == log[2].result.value
           b == bind(net, port)
       IN  /\ log' = Append(log, [call |-> "run", port |-> port, net |-> net, result |-> b])
           /\ IF b.ok
              THEN pc' = "serving" /\ net' = net \cup {port} /\ raised' = NoExc
              ELSE pc' = "exited" /\ net' = net /\ raised' = b.exc
    /\ UNCHANGED <<fs, stack, tree, changes, cwd, scanner, handles, threads, current,
                   deployment_requests, responses, disk, mock>>

\* another process binds a port of the range, or lets go of one, after
\* find_free_port has closed its socket
Occupy ==
    /\ pc \in {"found", "ready"}
    /\ changes < MaxChanges
    /\ changes' = changes + 1
    /\ \E port \in {log[2].result.value, log[1].start} :
          net' = IF port \in net THEN net \ {port} ELSE net \cup {port}
    /\ UNCHANGED <<fs, pc, stack, tree, raised, cwd, scanner, handles, threads, current,
                   log, deployment_requests, responses, disk, mock>>

BootNext == FindPort \/ Probe \/ CreateSample \/ Run \/ Occupy

BootSpec == BootInit /\ [][BootNext]_vars

---------------------------------------------------------------------------
(* Reading a result tree against the file system it was built from.        *)

\* the entry of directory d that is called name
ChildId(d, name) == CHOOSE c \in Children(fs, d) : fs[c].name = name

\* the DirectoryNodes of a tree whose top node is node, the result for
\* directory id at depth depth: each with its directory and its depth
RECURSIVE NodesOf(_, _, _)
NodesOf(node, id, depth) ==
    {[node |-> node, id |-> id, depth |-> depth]} \cup
    UNION {NodesOf(node.folders[i].value, ChildId(id, node.folders[i].key), depth + 1) :
              i \in 1..Len(node.folders)}

\* the nodes of the tree the scan returned
ReturnedNodes == IF pc = "done" /\ raised = NoExc THEN NodesOf(tree, ROOT, 0) ELSE {}

\* the nodes of the results under construction in the activations
PendingNodes ==
    UNION {NodesOf(stack[k].result, stack[k].dir, stack[k].depth) : k \in 1..Len(stack)}

\* every DirectoryNode the scanner has built so far
BuiltNodes == ReturnedNodes \cup PendingNodes

\* the FileAnalysis values of a set of nodes, each with its file
AnalysesOf(nodes) ==
    UNION {{[analysis |-> n.node.files[i].value,
             name |-> n.node.files[i].key,
             dir |-> n.id,
             id |-> ChildId(n.id, n.node.files[i].key)] : i \in 1..Len(n.node.files)} :
              n \in nodes}

BuiltAnalyses == AnalysesOf(BuiltNodes)

\* the statements of a syntax tree at any depth below node
RECURSIVE Descendants(_)
Descendants(node) ==
    LET c == ChildStmts(node)
    IN  {c[i] : i \in 1..Len(c)} \cup UNION {Descendants(c[i]) : i \in 1..Len(c)}

\* the statements that are direct children of the module
TopLevel(module) == {module.body[i] : i \in 1..Len(module.body)}

Range(seq) == {seq[i] : i \in 1..Len(seq)}

IsSource(id) == fs[id].content.state = "source"

RequiredKeys ==
    {"file_path", "functions", "classes", "constants", "imports",
     "total_functions", "total_classes", "total_constants", "lines"}

---------------------------------------------------------------------------
(* Claims about the analysis of one file.                                  *)

\* C1: scan_python_file never raises, and for every file whose reading or
\* parsing fails the FileAnalysis carries a non-empty 'error' string, empty
\* functions, classes, constants and imports, and totals of zero.
C1_FailureIsNonEmptyError ==
    /\ raised = NoExc
    /\ \A e \in BuiltAnalyses :
          /\ ~IsSource(e.id) =>
                "error" \in DOMAIN e.analysis /\ e.analysis.error # ""
          /\ "error" \in DOMAIN e.analysis =>
                /\ e.analysis.functions = <<>>
                /\ e.analysis.classes = <<>>
                /\ e.analysis.constants = <<>>
                /\ e.analysis.imports = <<>>
                /\ e.analysis.total_functions = 0
                /\ e.analysis.total_classes = 0
                /\ e.analysis.total_constants = 0

\* C7: 'functions' and 'classes' hold exactly the declarations that are
\* direct children of the module, so a declaration nested in a function, a
\* class or a block is not among them; 'constants' holds an entry for every
\* upper-case plain-name target of an assignment at any depth of the tree,
\* and nothing else.
C7_TopLevelDeclarationsAllConstants ==
    \A e \in BuiltAnalyses :
        IsSource(e.id) =>
            LET module == fs[e.id].content.tree
                top == TopLevel(module)
                all == Descendants(module)
                nested == all \ top
                fa == e.analysis
            IN  /\ {[name |-> x.name, line |-> x.line] : x \in Range(fa.functions)} =
                   {[name |-> t.name, line |-> t.lineno] :
                       t \in {t \in top : t.type \in {"FunctionDef", "AsyncFunctionDef"}}}
                /\ {[name |-> x.name, line |-> x.line] : x \in Range(fa.classes)} =
                   {[name |-> t.name, line |-> t.lineno] :
                       t \in {t \in top : t.type = "ClassDef"}}
                /\ \A t \in nested :
                      t.type \in {"FunctionDef", "AsyncFunctionDef", "ClassDef"} =>
                         \A x \in Range(fa.functions) \cup Range(fa.classes) :
                            x.line # t.lineno
                /\ {[name |-> c.name, line |-> c.line] : c \in Range(fa.constants)} =
                   UNION {{[name |-> t.targets[i].id, line |-> t.lineno] :
                              i \in {i \in 1..Len(t.targets) :
                                        /\ t.targets[i].type = "Name"
                                        /\ IsUpper(Ord[t.targets[i].id])}} :
                             t \in {t \in all : t.type = "Assign"}}

\* C7 happens: a scan returned the analysis of a file that has an upper-case
\* assignment at module level, one inside a function and a function nested
\* in a function
C7_Witness ==
    /\ pc = "done"
    /\ \E e \in AnalysesOf(ReturnedNodes) :
          /\ IsSource(e.id)
          /\ fs[e.id].content.tree = SampleNested
          /\ {c.name : c \in Range(e.analysis.constants)} = {"MAX", "LIMIT", "DEBUG"}
          /\ {x.name : x \in Range(e.analysis.functions)} = {"outer"}
          /\ e.analysis.classes = <<>>

\* C8: every FileAnalysis has the nine keys file_path, functions, classes,
\* constants, imports, total_functions, total_classes, total_constants and
\* lines, and has the key 'error' exactly when reading or parsing the file
\* failed.
C8_KeysOfFileAnalysis ==
    \A e \in BuiltAnalyses :
        /\ RequiredKeys \subseteq DOMAIN e.analysis
        /\ DOMAIN e.analysis \subseteq RequiredKeys \cup {"error"}
        /\ "error" \in DOMAIN e.analysis <=> ~IsSource(e.id)

\* C8 happens: a scan returned a tree with an analysis that carries 'error'
\* and one that does not
C8_Witness ==
    /\ pc = "done"
    /\ \E e1, e2 \in AnalysesOf(ReturnedNodes) :
          /\ "error" \in DOMAIN e1.analysis
          /\ "error" \notin DOMAIN e2.analysis

\* C9: the totals are the lengths of the sequences, and the sequences count
\* the declarations of the module itself: the methods of a class are in
\* that class's 'methods' and not among the functions.
C9_TotalsAreLengths ==
    \A e \in BuiltAnalyses :
        LET fa == e.analysis
        IN  /\ fa.total_functions = Len(fa.functions)
            /\ fa.total_classes = Len(fa.classes)
            /\ fa.total_constants = Len(fa.constants)
            /\ IsSource(e.id) =>
                  LET body == fs[e.id].content.tree.body
                      defs(b) == {i \in 1..Len(b) :
                                     b[i].type \in {"FunctionDef", "AsyncFunctionDef"}}
                      cls == {i \in 1..Len(body) : body[i].type = "ClassDef"}
                  IN  /\ fa.total_functions = Cardinality(defs(body))
                      /\ fa.total_classes = Cardinality(cls)
                      /\ \A c \in Range(fa.classes) :
                            \E i \in cls :
                               /\ body[i].name = c.name
                               /\ Len(c.methods) = Cardinality(defs(body[i].body))

\* C9 happens: a scan returned the analysis of the file with one class of
\* two methods (0 functions, 1 class) and of the file with one function
\* (1 function, 0 classes)
C9_Witness ==
    /\ pc = "done"
    /\ \E e1, e2 \in AnalysesOf(ReturnedNodes) :
          /\ fs[e1.id].content = Source(SampleClass, 14)
          /\ e1.analysis.total_functions = 0
          /\ e1.analysis.total_classes = 1
          /\ Len(e1.analysis.classes[1].methods) = 2
          /\ fs[e2.id].content = Source(SampleFunction, 10)
          /\ e2.analysis.total_functions = 1
          /\ e2.analysis.total_classes = 0
          /\ Len(e2.analysis.functions[1].args) = 4

\* a name written all in upper case: some letter A-Z and no letter a-z
AllUpper(name) ==
    /\ \E i \in 1..Len(Ord[name]) : Ord[name][i] \in 65..90
    /\ \A i \in 1..Len(Ord[name]) : Ord[name][i] \notin 97..122

\* the targets of the plain assignments of a module that count as
\* constants: statement and position of each upper-case plain name
ConstantTargets(module) ==
    UNION {{[stmt |-> t, at |-> i] :
               i \in {i \in 1..Len(t.targets) :
                         /\ t.targets[i].type = "Name"
                         /\ AllUpper(t.targets[i].id)}} :
              t \in {t \in Descendants(module) : t.type = "Assign"}}

\* C14: the constants of a file are given by the lexical convention alone:
\* every target of an assignment statement that is a plain name in upper
\* case, at module level, in a function body or in a class body, gives
\* exactly one Constant with the name, the text of the value and the line of
\* the statement, and nothing else gives one (not a name in mixed case, an
\* attribute, an unpacking target, an annotated or an augmented assignment).
C14_ConstantsByConvention ==
    \A e \in BuiltAnalyses :
        IsSource(e.id) =>
            LET targets == ConstantTargets(fs[e.id].content.tree)
                found == e.analysis.constants
            IN  /\ Len(found) = Cardinality(targets)
                /\ Range(found) =
                      {[name |-> x.stmt.targets[x.at].id,
                        value |-> UnparseOr(x.stmt.value, "complex_value"),
                        line |-> x.stmt.lineno] : x \in targets}

\* C14 happens: a scan returned the constants of the file that assigns
\* upper-case names at module level, in a function and under an if, twice
\* in one statement, and binds others in ways that do not count; and the
\* constant of the file that assigns one in a class body
C14_Witness ==
    /\ pc = "done"
    /\ \E e1, e2 \in AnalysesOf(ReturnedNodes) :
          /\ fs[e1.id].content = Source(SampleNested, 20)
          /\ e1.analysis.constants =
                <<[name |-> "MAX", value |-> "10", line |-> 2],
                  [name |-> "MAX", value |-> "0", line |-> 20],
                  [name |-> "LIMIT", value |-> "0", line |-> 20],
                  [name |-> "LIMIT", value |-> "2", line |-> 5],
                  [name |-> "DEBUG", value |-> "True", line |-> 12]>>
          /\ fs[e2.id].content = Source(SampleClass, 14)
          /\ e2.analysis.constants = <<[name |-> "RATE", value |-> "3", line |-> 2]>>

\* the Import entries a module must give when a plain import is tagged
\* direct and a from-import is tagged from_: one per imported name, with
\* statement and position
ImportsWanted(module, direct, from_) ==
    UNION {{[stmt |-> t, at |-> i,
             entry |-> [module |-> IF t.type = "Import" THEN t.names[i].name
                                   ELSE IF t.module = None THEN t.names[i].name
                                   ELSE t.module \o "." \o t.names[i].name,
                        alias |-> t.names[i].asname,
                        type |-> IF t.type = "Import" THEN direct ELSE from_]] :
               i \in 1..Len(t.names)} :
              t \in {t \in Descendants(module) : t.type \in {"Import", "ImportFrom"}}}

\* the imports of an analysis are, one for one, the wanted entries
ImportsAre(e, direct, from_) ==
    LET wanted == ImportsWanted(fs[e.id].content.tree, direct, from_)
    IN  /\ Len(e.analysis.imports) = Cardinality(wanted)
        /\ Range(e.analysis.imports) = {w.entry : w \in wanted}

\* C18 as stated: an Import entry has the module path, the alias and a kind
\* tag; a plain import gives the dotted path with kind 'direct', a from-import
\* gives 'module.symbol', one entry per symbol, with kind 'from'.
C18_ImportKinds ==
    \A e \in BuiltAnalyses : IsSource(e.id) => ImportsAre(e, "direct", "from")

\* C18 as amended: the kind tags are 'import' and 'from_import'; a plain
\* import gives the dotted path, a from-import gives 'module.symbol', one
\* entry per symbol, and the symbol alone when the statement names no module.
C18_ImportKindsAmended ==
    \A e \in BuiltAnalyses :
        /\ IsSource(e.id) => ImportsAre(e, "import", "from_import")
        /\ \A i \in 1..Len(e.analysis.imports) :
              DOMAIN e.analysis.imports[i] = {"module", "alias", "type"}

\* C18 happens: a scan returned the imports of the file that imports two
\* modules in one statement, one relative symbol and two symbols of a.b
C18_Witness ==
    /\ pc = "done"
    /\ \E e \in AnalysesOf(ReturnedNodes) :
          e.analysis.imports =
             <<[module |-> "os.path", alias |-> "p", type |-> "import"],
               [module |-> "sys", alias |-> None, type |-> "import"],
               [module |-> "sib", alias |-> None, type |-> "from_import"],
               [module |-> "a.b.c", alias |-> "d", type |-> "from_import"],
               [module |-> "a.b.e", alias |-> None, type |-> "from_import"]>>

\* the Function entries of an analysis: the functions and the methods of the
\* classes
FunctionEntries(fa) ==
    Range(fa.functions) \cup UNION {Range(c.methods) : c \in Range(fa.classes)}

\* the declaration an entry was made from: the function at the entry's line
DefAt(module, line) ==
    CHOOSE t \in Descendants(module) :
        t.type \in {"FunctionDef", "AsyncFunctionDef"} /\ t.lineno = line

\* the Parameter of a non-variadic parameter
ParameterOf(p) ==
    [name |-> p.arg,
     type |-> IF p.annotation = NoNode THEN None ELSE UnparseOr(p.annotation, "unknown")]

\* C19: the Parameters of a Function list each parameter the function
\* declares: the non-variadic ones in declaration order, by name and with
\* the annotation text as type (no type when unannotated), then '*name'
\* with 'varargs', then '**name' with 'kwargs'.
C19_EveryParameterListed ==
    \A e \in BuiltAnalyses :
        IsSource(e.id) =>
            \A fn \in FunctionEntries(e.analysis) :
                LET a == DefAt(fs[e.id].content.tree, fn.line).args
                    plain == a.posonlyargs \o a.args \o a.kwonlyargs
                    star == IF a.vararg = NoNode THEN <<>>
                            ELSE <<[name |-> "*" \o a.vararg.arg, type |-> "varargs"]>>
                    stars == IF a.kwarg = NoNode THEN <<>>
                             ELSE <<[name |-> "**" \o a.kwarg.arg, type |-> "kwargs"]>>
                IN  fn.args = [i \in 1..Len(plain) |-> ParameterOf(plain[i])] \o star \o stars

FunctionKeys ==
    {"name", "line", "args", "return_type", "decorators", "docstring", "is_async"}

\* the statements of kind types among stmts, in source order
OfType(stmts, types) == SelectSeq(stmts, LAMBDA t : t.type \in types)

\* the plain-name targets of a sequence of assignments, in source order,
\* each with its statement
RECURSIVE NameTargets(_)
NameTargets(assigns) ==
    IF assigns = <<>> THEN <<>>
    ELSE LET t == Head(assigns)
             named == SelectSeq(t.targets, LAMBDA x : x.type = "Name")
         IN  [i \in 1..Len(named) |-> [stmt |-> t, id |-> named[i].id]]
             \o NameTargets(Tail(assigns))

\* C20: a Class entry holds, in source order, a method for every function,
\* synchronous or asynchronous, declared directly in the class body, each
\* with the keys of a Function; an attribute for every plain-name target of
\* an assignment directly in the class body, with the value text and the
\* line; and the base-type names. A function nested in a method is no method.
C20_ClassEntry ==
    \A e \in BuiltAnalyses :
        IsSource(e.id) =>
            LET decls == OfType(fs[e.id].content.tree.body, {"ClassDef"})
                found == e.analysis.classes
            IN  /\ Len(found) = Len(decls)
                /\ \A k \in 1..Len(decls) :
                      LET c == found[k]
                          t == decls[k]
                          defs == OfType(t.body, {"FunctionDef", "AsyncFunctionDef"})
                          targets == NameTargets(OfType(t.body, {"Assign"}))
                          nested == Descendants(t) \ Range(t.body)
                      IN  /\ c.name = t.name /\ c.line = t.lineno
                          /\ [i \in 1..Len(c.methods) |->
                                 <<c.methods[i].name, c.methods[i].line, c.methods[i].is_async>>]
                             = [i \in 1..Len(defs) |->
                                 <<defs[i].name, defs[i].lineno,
                                   defs[i].type = "AsyncFunctionDef">>]
                          /\ \A m \in Range(c.methods) : DOMAIN m = FunctionKeys
                          /\ \A fn \in Range(e.analysis.functions) : DOMAIN fn = FunctionKeys
                          /\ c.attributes =
                                [i \in 1..Len(targets) |->
                                    [name |-> targets[i].id,
                                     value |-> UnparseOr(targets[i].stmt.value, "complex_value"),
                                     line |-> targets[i].stmt.lineno]]
                          /\ c.bases = [i \in 1..Len(t.bases) |->
                                           UnparseOr(t.bases[i], "unknown_base")]
                          /\ \A n \in nested :
                                n.type \in {"FunctionDef", "AsyncFunctionDef"} =>
                                   \A m \in Range(c.methods) : m.line # n.lineno

\* C20 happens: a scan returned the entry of class Ledger with its two
\* methods (not the function nested in add), three attributes and two bases
C20_Witness ==
    /\ pc = "done"
    /\ \E e \in AnalysesOf(ReturnedNodes) :
          /\ Len(e.analysis.classes) = 1
          /\ LET c == e.analysis.classes[1]
             IN  /\ [i \in 1..Len(c.methods) |-> c.methods[i].name] = <<"add", "flush">>
                 /\ c.methods[2].is_async
                 /\ c.attributes =
                       <<[name |-> "RATE", value |-> "3", line |-> 2],
                         [name |-> "low", value |-> "RATE", line |-> 10],
                         [name |-> "high", value |-> "RATE", line |-> 10]>>
                 /\ c.bases = <<"object", "base.Model">>

---------------------------------------------------------------------------
(* Claims about the walk of the directories.                               *)

\* the sub-directories of d the walk must list: not in the deny-set, not
\* dot-prefixed
ListedDirs(d) ==
    {c \in Children(fs, d) :
        /\ fs[c].kind = "dir"
        /\ fs[c].name \notin skip_dirs
        /\ Ord[fs[c].name][1] # DOT}

\* the files of d the walk must list: '.py' files that are not dot-prefixed
ListedFiles(d) ==
    {c \in Children(fs, d) :
        /\ fs[c].kind = "file"
        /\ Ord[fs[c].name][1] # DOT
        /\ Suffix(Ord[fs[c].name]) = Ord[".py"]}

NamesOf(ids) == {fs[c].name : c \in ids}

\* C2: no failure of an entry aborts the scan or the walk of its directory.
\* The scan returns a tree, and (in a file system that did not change during
\* the scan) the node of every directory that can itself be listed, above
\* the depth limit, carries no 'error' and lists every qualifying entry,
\* a failed file with the error on its own analysis.
C2_FailureStaysLocal ==
    /\ raised = NoExc
    /\ pc = "done" => tree # NoTree
    /\ \A n \in ReturnedNodes :
          ( /\ changes = 0
            /\ n.depth < max_depth
            /\ fs[n.id].kind = "dir"
            /\ fs[n.id].mode = "rwx" )
          => /\ "error" \notin DOMAIN n.node
             /\ Keys(n.node.folders) = NamesOf(ListedDirs(n.id))
             /\ Keys(n.node.files) = NamesOf(ListedFiles(n.id))
             /\ \A i \in 1..Len(n.node.files) :
                   ~IsSource(ChildId(n.id, n.node.files[i].key)) =>
                       "error" \in DOMAIN n.node.files[i].value

\* C3: no node of a tree lies deeper than max_depth; a node at depth
\* max_depth is the depth marker with empty 'folders' and 'files'; no node
\* above it carries the marker; and a chain of more than max_depth nested
\* directories (in a file system that did not change) ends in the marker
\* at depth max_depth.
C3_DepthLimit ==
    /\ \A n \in BuiltNodes :
          /\ n.depth <= max_depth
          /\ n.depth = max_depth =>
                n.node = [folders |-> <<>>, files |-> <<>>, error |-> "Max depth reached"]
          /\ (n.depth < max_depth /\ "error" \in DOMAIN n.node) =>
                n.node.error # "Max depth reached"
    /\ (pc = "done" /\ changes = 0 /\ (max_depth + 1) \in DOMAIN fs) =>
          \E n \in ReturnedNodes : n.depth = max_depth /\ n.id = max_depth

\* C3 happens: the scan of a chain longer than max_depth returned a tree
\* with the marker at depth max_depth
C3_Witness ==
    /\ pc = "done"
    /\ changes = 0
    /\ "error" \notin DOMAIN tree
    /\ ChainLen > max_depth
    /\ ChainLen \in DOMAIN fs
    /\ \E n \in ReturnedNodes :
          /\ n.depth = max_depth
          /\ n.node.error = "Max depth reached"
          /\ n.node.folders = <<>>

\* C4: no exception leaves build_directory_structure; what it returns is a
\* tree in which every DirectoryNode has 'folders' and 'files' and at most
\* the further key 'error'; a missing root gives such a node with 'error'.
C4_NoExceptionOnlyErrorValues ==
    /\ raised = NoExc
    /\ pc = "done" => tree # NoTree
    /\ \A n \in BuiltNodes :
          /\ {"folders", "files"} \subseteq DOMAIN n.node
          /\ DOMAIN n.node \subseteq {"folders", "files", "error"}
    /\ (pc = "done" /\ fs[ROOT].kind = "missing") =>
          /\ "error" \in DOMAIN tree
          /\ tree.folders = <<>>
          /\ tree.files = <<>>

\* C4 happens: the scan of a missing root returned a node with 'error'
C4_Witness ==
    /\ pc = "done"
    /\ fs[ROOT].kind = "missing"
    /\ "error" \in DOMAIN tree

\* C5: no key of a 'folders' mapping is a deny-set name or dot-prefixed, no
\* key of a 'files' mapping is dot-prefixed, and no file below such a
\* directory is in the tree.
C5_SkippedNeverListed ==
    /\ \A n \in BuiltNodes :
          /\ \A k \in Keys(n.node.folders) : k \notin skip_dirs /\ Ord[k][1] # DOT
          /\ \A k \in Keys(n.node.files) : Ord[k][1] # DOT
    /\ \A e \in BuiltAnalyses :
          \A i \in 1..Len(e.analysis.file_path) :
             /\ e.analysis.file_path[i] \notin skip_dirs
             /\ Ord[e.analysis.file_path[i]][1] # DOT

\* C5 happens: the root holds '.git' and 'build' with a '.py' file each and
\* pkg holds '.h.py'; the scan listed the root and pkg without them
C5_Witness ==
    /\ pc = "done"
    /\ {".git", "build"} \subseteq NamesOf(Children(fs, ROOT))
    /\ "error" \notin DOMAIN tree
    /\ HasKey(tree.folders, "pkg")
    /\ "error" \notin DOMAIN Get(tree.folders, "pkg")
    /\ Keys(Get(tree.folders, "pkg").files) = {"a.py", "A.py"}
    /\ Keys(tree.folders) \subseteq {"d", "pkg"}

\* C6: every key of a 'files' mapping names a file with the suffix '.py';
\* a readable directory (in a file system that did not change) that holds
\* only files with other suffixes gives a node with empty 'folders' and
\* 'files' and no 'error'.
C6_OnlyPyFiles ==
    \A n \in BuiltNodes :
        /\ \A k \in Keys(n.node.files) :
              /\ Suffix(Ord[k]) = <<46, 112, 121>>
              /\ fs[ChildId(n.id, k)].kind = "file"
        /\ ( /\ n \in ReturnedNodes
             /\ changes = 0
             /\ n.depth < max_depth
             /\ fs[n.id].kind = "dir"
             /\ fs[n.id].mode = "rwx"
             /\ Children(fs, n.id) # {}
             /\ \A c \in Children(fs, n.id) :
                   fs[c].kind = "file" /\ Suffix(Ord[fs[c].name]) # <<46, 112, 121>> )
           => n.node = [folders |-> <<>>, files |-> <<>>]

\* C10: a refused read of a directory does not raise. When the refusal comes
\* in the loop, the node keeps the entries recorded so far and gains the
\* error 'Permission denied'; when it comes at the listing, the node is empty
\* with that error; and the caller stores the node under the entry's name
\* and goes on with its loop.
C10_PermissionDenied ==
    [][ /\ ( /\ pc = "scanning"
             /\ Top.at = "loop"
             /\ Top.items # <<>>
             /\ ~stat(fs, Head(Top.items)).ok
             /\ stack' # stack )
           => /\ raised' = NoExc
              /\ Len(stack') = Len(stack)
              /\ stack'[Len(stack)].result =
                    [folders |-> Top.result.folders, files |-> Top.result.files,
                     error |-> "Permission denied"]
              /\ stack'[Len(stack)].at = "return"
        /\ ( /\ pc = "scanning"
             /\ Len(stack') = Len(stack) + 1
             /\ stack'[Len(stack')].depth < max_depth
             /\ ~CanRead(fs[stack'[Len(stack')].dir].mode) )
           => stack'[Len(stack')].result =
                 [folders |-> <<>>, files |-> <<>>, error |-> "Permission denied"]
        /\ ( /\ pc = "scanning"
             /\ Len(stack) >= 2
             /\ Len(stack') = Len(stack) - 1
             /\ "error" \in DOMAIN Top.result )
           => /\ raised' = NoExc
              /\ stack'[Len(stack')].at = "loop"
              /\ stack'[Len(stack')].items = Tail(stack[Len(stack) - 1].items)
              /\ Get(stack'[Len(stack')].result.folders, fs[Top.dir].name) = Top.result
      ]_vars

\* C10 happens: the scan returned a tree where the node of pkg carries
\* 'Permission denied' and the file recorded before the refusal, and the
\* root, whose loop went on after pkg, lists its own file
C10_Witness ==
    /\ pc = "done"
    /\ "error" \notin DOMAIN tree
    /\ HasKey(tree.folders, "pkg")
    /\ "error" \in DOMAIN Get(tree.folders, "pkg")
    /\ Get(tree.folders, "pkg").error = "Permission denied"
    /\ Get(tree.folders, "pkg").files # <<>>
    /\ HasKey(tree.files, "a.py")

\* the lower-cased names of a sequence of keys are in ascending order
\* (equal neighbours allowed: names that differ in case only)
Ascending(keys) ==
    \A i, j \in 1..Len(keys) :
        i < j => ~StrLess(Lower(Ord[keys[j]]), Lower(Ord[keys[i]]))

\* C13: the loop of process_directory visits every directory before every
\* file and, within each kind, the entries in case-insensitive ascending
\* order of their names; so the keys of every 'folders' and of every 'files'
\* mapping are in case-insensitive ascending order, and no folder is added
\* to a node after its first file.
C13_VisitOrder ==
    /\ \A n \in BuiltNodes :
          /\ Ascending(KeyList(n.node.folders))
          /\ Ascending(KeyList(n.node.files))
    /\ \A k \in 1..Len(stack) :
          LET fr == stack[k]
              dirs == SelectSeq(fr.items, LAMBDA c : fs[c].kind = "dir")
              files == SelectSeq(fr.items, LAMBDA c : fs[c].kind # "dir")
          IN  fr.at = "loop" =>
                 /\ fr.items = dirs \o files
                 /\ Ascending([i \in 1..Len(dirs) |-> fs[dirs[i]].name])
                 /\ Ascending([i \in 1..Len(files) |-> fs[files[i]].name])
                 /\ Ascending(KeyList(fr.result.folders) \o
                                [i \in 1..Len(dirs) |-> fs[dirs[i]].name])
                 /\ Ascending(KeyList(fr.result.files) \o
                                [i \in 1..Len(files) |-> fs[files[i]].name])
                 /\ fr.result.files # <<>> => dirs = <<>>

\* C13 happens: the scan returned a tree whose root lists a.py before Z.py
\* and whose node for pkg lists the two files whose names differ in case only
C13_Witness ==
    /\ pc = "done"
    /\ "error" \notin DOMAIN tree
    /\ KeyList(tree.files) = <<"a.py", "Z.py">>
    /\ Len(tree.folders) >= 1
    /\ HasKey(tree.folders, "pkg")
    /\ Keys(Get(tree.folders, "pkg").files) = {"a.py", "A.py"}
    /\ HasKey(Get(tree.folders, "pkg").folders, "s")

---------------------------------------------------------------------------
(* Claims about the constructor.                                           *)

\* directory d holds an entry whose name is a project indicator
HoldsIndicator(d) ==
    \E c \in Children(fs, d) :
        fs[c].kind # "missing" /\ fs[c].name \in Range(project_indicators)

\* the working directory of a call and the directories above it, nearest first
ChainOf(d) == <<d>> \o parents(fs, d)

---------------------------------------------------------------------------
(* Claims about the files and directories the scan opens.                  *)

---------------------------------------------------------------------------
(* Claims about the application.                                           *)

\* what a request on record built: its tree, or the exception
BuiltBy(e) == IF e.raised = NoExc THEN Returned(e.tree) ELSE Raised(e.raised)

\* the request on record scanned a file system that did not change between
\* its constructor and the return of its tree
Clean(e) == ~e.request.dirty

\* C15: every request builds its tree from scratch: whatever scans and
\* changes of the file system came before, the tree and the response of a
\* request served on its own are those the handler gives on the file system
\* of that scan with nothing before it, and two requests that scan the same
\* file system are given equal trees.
C15_RebuiltPerRequest ==
    /\ \A i \in 1..Len(log) :
          Clean(log[i]) /\ ~log[i].request.overlapped =>
             /\ SameResponse(BuiltBy(log[i]), Built(log[i].request.seen))
             /\ SameResponse(log[i].response,
                             Alone(log[i].request.seen, log[i].request.kind))
    /\ \A i, j \in 1..Len(log) :
          /\ Clean(log[i]) /\ Clean(log[j])
          /\ log[i].request.seen = log[j].request.seen
          => SameResponse(BuiltBy(log[i]), BuiltBy(log[j]))

\* C15 happens: two requests for /structure were served one after the
\* other, the file system changed between them, and the second was given a
\* tree different from the first's
C15_Witness ==
    /\ Len(log) = 2
    /\ \A i \in 1..2 :
          /\ Clean(log[i]) /\ ~log[i].request.overlapped
          /\ log[i].request.kind = "structure"
          /\ log[i].response.ok
          /\ "folders" \in DOMAIN log[i].response.value
    /\ log[1].request.seen # log[2].request.seen
    /\ ~SameResponse(log[1].response, log[2].response)

\* C16: a request served while another is being served, in whatever way the
\* steps of the two interleave, builds the tree and gives the response that
\* the handler gives when it runs alone on that file system.
C16_ServedAsAlone ==
    \A i \in 1..Len(log) :
        Clean(log[i]) /\ log[i].request.overlapped =>
           /\ SameResponse(BuiltBy(log[i]), Built(log[i].request.seen))
           /\ SameResponse(log[i].response,
                           Alone(log[i].request.seen, log[i].request.kind))

\* C16 happens: the second request was given its tree, with both files of
\* pkg, while the first stood in the middle of its walk, inside pkg
C16_Witness ==
    /\ Len(log) = 1
    /\ log[1].request.req = 2
    /\ Clean(log[1]) /\ log[1].request.overlapped
    /\ log[1].request.kind = "structure"
    /\ log[1].response.ok
    /\ "folders" \in DOMAIN log[1].response.value
    /\ Keys(Get(log[1].response.value.folders, "pkg").files) = {"a.py", "A.py"}
    /\ Len(threads) = 1
    /\ threads[1].request.req = 1
    /\ threads[1].locals.pc = "scanning"
    /\ Len(threads[1].locals.stack) = 2

\* dict d without key k
RECURSIVE Drop(_, _)
Drop(d, k) ==
    IF d = <<>> THEN <<>>
    ELSE IF Head(d).key = k THEN Drop(Tail(d), k)
    ELSE <<Head(d)>> \o Drop(Tail(d), k)

\* the answers on record of GET /structure
StructureAnswers ==
    {log[i] : i \in {i \in 1..Len(log) : log[i].request.kind = "structure"}}

\* node and other are the same but for entry k of their files
SameButFile(node, other, k) ==
    /\ DOMAIN node = DOMAIN other
    /\ node.folders = other.folders
    /\ Drop(node.files, k) = Drop(other.files, k)
    /\ "error" \in DOMAIN node => node.error = other.error

\* response out holds the sample analysis under (Test), and is the scanned
\* tree data in everything else
HoldsSample(out, data) ==
    /\ "folders" \in DOMAIN out
    /\ HasKey(out.folders, "(Test)")
    /\ LET shown == Get(out.folders, "(Test)")
           sample == Get(shown.files, "sample_function.py")
       IN  /\ HasKey(shown.files, "sample_function.py")
           /\ Len(sample.functions) = 1
           /\ sample.functions[1].name = "create_product_record"
           /\ sample.functions[1].args =
                 <<[name |-> "product_id", type |-> "str"],
                   [name |-> "product_name", type |-> "str"],
                   [name |-> "price", type |-> "int"],
                   [name |-> "is_available", type |-> "bool"]>>
           /\ sample.total_functions = 1
           /\ sample.total_classes = 0
           /\ sample.classes = <<>>
           /\ IF HasKey(data.folders, "(Test)")
              THEN SameButFile(shown, Get(data.folders, "(Test)"), "sample_function.py")
              ELSE shown.folders = <<>> /\ Keys(shown.files) = {"sample_function.py"}
    /\ DOMAIN out = DOMAIN data
    /\ out.files = data.files
    /\ "error" \in DOMAIN data => out.error = data.error
    /\ Drop(out.folders, "(Test)") = Drop(data.folders, "(Test)")

---------------------------------------------------------------------------
(* Claims about startup.                                                   *)

\* the calls on record of the function called name
CallsOf(name) == {log[i] : i \in {i \in 1..Len(log) : log[i].call = name}}

\* the ports of the range of a call of find_free_port that could be bound
\* when it was made
Bindable(e) == {p \in Span(e.start, PortSpan) : bind(e.net, p).ok}

---------------------------------------------------------------------------
(* Claims about the end of the walk.                                       *)

\* the links of the file system, and whether following links from
\* directory d leads back to d
Links == {n \in DOMAIN fs : "link" \in DOMAIN fs[n]}

Cyclic == \E n \in Links : fs[n].link = ROOT

\* C22: on a finite file system, also one whose directory links form a
\* cycle or that nests deeper than the limit, build_directory_structure
\* returns a tree after finitely many steps: no activation of
\* process_directory is deeper than max_depth, and the call ends without
\* an exception.
C22_WalkTerminates ==
    /\ [](\A i \in 1..Len(stack) : stack[i].depth = i - 1 /\ i - 1 <= max_depth)
    /\ <>(pc = "done" /\ stack = <<>> /\ raised = NoExc /\ tree # NoTree)

\* C22 happens: the walk of a project that links to itself returned, and
\* the tree repeats the project down to the marker at depth max_depth
C22_Witness ==
    /\ pc = "done"
    /\ Cyclic
    /\ changes = 0
    /\ "error" \notin DOMAIN tree
    /\ \E n \in ReturnedNodes :
          /\ n.depth = max_depth
          /\ n.id \in Links
          /\ n.node = DepthMarker
    /\ \E n \in ReturnedNodes :
          /\ n.depth = max_depth - 1
          /\ n.id \in Links
          /\ HasKey(n.node.files, "a.py")

---------------------------------------------------------------------------
(* Claims about basic_encrypt and basic_decrypt.                           *)

\* C23: basic_decrypt is the inverse of basic_encrypt and basic_encrypt the
\* inverse of basic_decrypt: a call of the one on what the other returned
\* returns the text the other was given; and no call raises.
C23_Inverse ==
    /\ \A i \in 2..Len(log) : log[i].result.ok
    /\ \A i \in 2..(Len(log) - 1) :
          log[i].call # log[i + 1].call => log[i + 1].result = Returned(log[i].data)

\* C23 happens: a text with the last code point and a surrogate was
\* encrypted to another text, and that was decrypted
C23_Witness ==
    /\ Len(log) >= 3
    /\ log[2].call = "basic_encrypt"
    /\ log[3].call = "basic_decrypt"
    /\ log[2].data = <<MaxCodePoint, 55296>>
    /\ log[2].result.value # log[2].data
    /\ log[3].result.value = log[2].data

---------------------------------------------------------------------------
(* Claims about POST /deploy.                                              *)

\* every contract generated so far, with the request it was generated for
Generated ==
    {[req |-> deployment_requests[i], sol_code |-> responses[i].solidity_contract] :
        i \in 1..Len(responses)}
    \cup (IF pc = "run" THEN {[req |-> Top.req, sol_code |-> Top.sol_code]} ELSE {})

\* the places of the parameters other than 'return', and the place the
\* parameter at place i has among them
Others(params) == {i \in 1..Len(params) : params[i].name # "return"}

Rank(params, i) == Cardinality({j \in Others(params) : j <= i})

\* C24: a generated contract declares one public state variable per included
\* parameter, in request order, 'return' as returnValue; its constructor
\* has one parameter and one assignment per included parameter other than
\* 'return', in the same order, and none for 'return'.
C24_ContractShape ==
    \A g \in Generated :
       LET params == g.req.included_params
           c == g.sol_code
       IN  /\ Len(c.state_vars) = Len(params)
           /\ \A i \in 1..Len(params) :
                 c.state_vars[i].public =
                    (IF params[i].name = "return" THEN "returnValue" ELSE params[i].name)
           /\ Len(c.constructor_params) = Cardinality(Others(params))
           /\ Len(c.constructor_logic) = Cardinality(Others(params))
           /\ \A i \in Others(params) :
                 /\ c.constructor_params[Rank(params, i)].underscore = params[i].name
                 /\ c.constructor_params[Rank(params, i)].type = c.state_vars[i].type
                 /\ c.constructor_logic[Rank(params, i)] =
                       [target |-> params[i].name, underscore |-> params[i].name]

\* C24 happens: the contract of a request with three parameters after its
\* return value was generated
C24_Witness ==
    /\ pc = "answered"
    /\ \E e \in CallsOf("deploy.sh") :
          /\ Len(deployment_requests[e.req].included_params) = 3
          /\ deployment_requests[e.req].included_params[1].name = "return"
          /\ e.sol_code.state_vars[1] = [type |-> "int256", public |-> "returnValue"]
          /\ Len(e.sol_code.constructor_params) = 2
          /\ e.sol_code.constructor_params[2] =
                [type |-> "int256", memory |-> FALSE, underscore |-> "count"]

\* C25: the forge command of every request has as many constructor
\* arguments as the generated contract has constructor parameters, the
\* j-th argument being the text of the value of the j-th parameter.
C25_ArgsMatchParams ==
    \A e \in CallsOf("deploy.sh") :
       LET req == deployment_requests[e.req]
           params == req.included_params
       IN  /\ Len(e.final_args) = Len(e.sol_code.constructor_params)
           /\ \A i \in Others(params) :
                 e.final_args[Rank(params, i)] = FormatArg(params[i].value, req.encrypt)

\* C26: a result reports status 'success' only when the script of its
\* request ran and exited with 0.
C26_SuccessMeansScriptSucceeded ==
    \A e \in CallsOf("respond") :
       "results" \in DOMAIN e.body =>
          \A i \in 1..Len(e.body.results) :
             e.body.results[i].status = "success" =>
                \E r \in CallsOf("deploy.sh") : r.req = i /\ r.outcome = "exit 0"

\* the runs of the script, in the order they happened
IsRun(e) == e.call = "deploy.sh"

Runs == SelectSeq(log, IsRun)

\* C27: the requests are handled in payload order, and the answer has
\* either one result per request, in that order, and no 'error', or, when
\* handling a request raised, only 'error'.
C27_AllResultsOrOnlyError ==
    /\ \A k \in 1..Len(Runs) : Runs[k].req = k
    /\ \A e \in CallsOf("respond") :
          IF raised = NoExc
          THEN /\ DOMAIN e.body = {"status", "message", "results"}
               /\ Len(e.body.results) = Len(deployment_requests)
               /\ Len(Runs) = Len(deployment_requests)
               /\ \A i \in 1..Len(deployment_requests) :
                     /\ e.body.results[i].included_params =
                           deployment_requests[i].included_params
                     /\ e.body.results[i].message.of = deployment_requests[i].functionName
                     /\ e.body.results[i].solidity_contract = Runs[i].sol_code
          ELSE DOMAIN e.body = {"error"}
    /\ pc = "answered" <=> CallsOf("respond") # {}
    /\ Cardinality(CallsOf("respond")) <= 1

\* C27 happens: the first request of a payload was handled and its script
\* ran, the second raised, and the answer is the error alone
C27_Witness ==
    /\ pc = "answered"
    /\ Len(deployment_requests) = 2
    /\ Len(Runs) = 1
    /\ raised = Exc("KeyError", "'value'")
    /\ \E e \in CallsOf("respond") : e.body = [error |-> "'value'"]

---------------------------------------------------------------------------
(* Claims about substrate_deployment.py.                                   *)

\* the calls of deploy_function on record, in call order
IsDeploy(e) == e.call = "deploy_function"

Deploys(calls) == SelectSeq(calls, IsDeploy)

\* C29: after any calls of deploy_function, function_counter is the number
\* of entries of deployed_functions, the k-th call returned function_id k,
\* and list_deployed_functions returns one (function_id, name, className)
\* per call of deploy_function before it, in call order, and changes
\* nothing.
C29_CounterAndIds ==
    /\ mock.function_counter = Len(mock.deployed_functions)
    /\ \A k \in 1..Len(Deploys(log)) :
          /\ Deploys(log)[k].result.ok
          /\ Deploys(log)[k].result.value.function_id = k
    /\ \A i \in 1..Len(log) :
          log[i].call = "list_deployed_functions" =>
             LET made == Deploys(SubSeq(log, 1, i - 1))
                 listed == log[i].result.value.functions
             IN  /\ log[i].after = log[i].before
                 /\ Len(listed) = Len(made)
                 /\ \A k \in 1..Len(made) :
                       listed[k] = <<k, GetOr(made[k].arg, "functionName", "unknown").value,
                                     GetOr(made[k].arg, "className", None).value>>

\* the first event of the receipt that is 'FunctionDeployed' or cannot be
\* read, 0 when the receipt has none
FirstHit(events) ==
    LET hits == {i \in 1..Len(events) :
                    ~events[i].readable \/ events[i].event_id = "FunctionDeployed"}
    IN  IF hits = {} THEN 0 ELSE CHOOSE i \in hits : \A j \in hits : i <= j

\* C30: extract_function_id_from_receipt never raises; it returns the
\* function_id of the first 'FunctionDeployed' event when the events up to
\* it, and its function_id, can be read, and the fallback 1 when the receipt
\* has no such event or reading fails.
C30_FirstEventOrFallback ==
    \A e \in CallsOf("extract_function_id_from_receipt") :
       /\ e.result.ok
       /\ pc = "extracted"
       /\ IF e.receipt.py # "receipt" THEN e.result.value = 1
          ELSE LET events == e.receipt.triggered_events
                   k == FirstHit(events)
               IN  IF k = 0 THEN e.result.value = 1
                   ELSE IF ~events[k].readable THEN e.result.value = 1
                   ELSE IF "function_id" \in DOMAIN events[k].attributes
                   THEN e.result.value = events[k].attributes.function_id
                   ELSE e.result.value = 1

\* C30 happens: a receipt with two 'FunctionDeployed' events after another
\* event gave the function_id of the first of the two
C30_Witness ==
    /\ pc = "extracted"
    /\ log[1].receipt = Receipt(<<Event("ExtrinsicSuccess", [weight |-> 7]),
                                  Event("FunctionDeployed", [function_id |-> 9]),
                                  Event("FunctionDeployed", [function_id |-> 7])>>)
    /\ log[2].result = Returned(9)

====
